---- MODULE Spec2Model ----
(***************************************************************************)
(* Model of the NoLeak vault container engine (vault_container.c,          *)
(* vault_index.c, vault_engine.c).  Sizes and offsets are real byte        *)
(* counts.  Cryptography is symbolic: a ciphertext records the key, nonce  *)
(* and associated data it was produced under and decrypts only under the   *)
(* same ones; a damaged ciphertext decrypts under none.                    *)
(***************************************************************************)
EXTENDS Integers, Sequences, FiniteSets, TLC

VARIABLES
    disk,      \* the container file at g_vault.path
    g_vault,   \* the process-wide handle (vault_state_t)
    res,       \* outcome of the last API call
    live,      \* ghost: entries a caller expects to survive, in insertion order
    curPass,   \* ghost: passphrase set by the last successful create/change_password
    faults,    \* ghost: I/O faults injected so far
    ops,       \* ghost: write calls made so far
    nfiles,    \* ghost: file ids handed out so far
    rot,       \* ghost: salts handed out so far
    oldIdx,    \* ghost: an index section this vault held earlier
    tampered,  \* ghost: what was altered in the file behind the engine's back
    g_pending_dir,     \* streaming: whether the static g_pending_dir is set
    g_active_imports,  \* streaming: the in-memory sessions, MAX_ACTIVE_IMPORTS slots
    pending,           \* streaming: the staging directories under .pending_imports
    g_kdf,       \* key derivation: the statics g_kdf_mem, g_kdf_iter, g_kdf_parallel
    kdf_hdr,     \* key derivation: salt, KDF fields and wrapped key of the header on disk
    kdf_handle   \* key derivation: salt, KDF fields and wrapped key of g_vault

vars == <<disk, g_vault, res, live, curPass, faults, ops, nfiles, rot, oldIdx, tampered,
          g_pending_dir, g_active_imports, pending, g_kdf, kdf_hdr, kdf_handle>>

\* the state of the streaming engine
stream_vars == <<g_pending_dir, g_active_imports, pending>>

\* the state of the key-derivation view
kdf_vars == <<g_kdf, kdf_hdr, kdf_handle>>

----------------------------------------------------------------------------
(* Bounds of the model *)
MaxFiles == 2
MaxRot == 2
MaxFaults == 1
MaxOps == 3

(* Program constants *)
VAULT_NONCE_LEN == 24
VAULT_TAG_LEN == 16
VAULT_HASH_LEN == 32
VAULT_KEY_LEN == 32
VAULT_ID_LEN == 16
VAULT_CHUNK_SIZE == 1048576
VAULT_MIN_PASSPHRASE_LEN == 12
VAULT_FILE_TYPE_TXT == 1
VAULT_FILE_TYPE_IMG == 2
VAULT_FILE_TYPE_VIDEO == 3
WRAPPED_MK_SIZE == VAULT_KEY_LEN + VAULT_TAG_LEN + VAULT_NONCE_LEN
VAULT_JOURNAL_SLOT_COUNT == 2
VAULT_INDEX_MIN_CAPACITY == 65536
VAULT_INDEX_GROWTH_SLACK == 32768
SizeofJournalSuper == 28
SizeofJournalSlot == 128
SizeofLegacyHeader == 60
UINT16_MOD == 65536
MaxIndexCtLen == 104857600
MaxNameLen == 4096
MaxMimeLen == 512
MaxWrappedDekLen == 512
MaxEntryCount == 1000000
MAX_ACTIVE_IMPORTS == 4
STREAMING_CHUNK_SIZE == 4194304
VAULT_KDF_MEM_HIGH == 268435456
VAULT_KDF_ITER_HIGH == 12
VAULT_KDF_PARALLEL_HIGH == 2
VAULT_KDF_MEM_MEDIUM == 134217728
VAULT_KDF_ITER_MEDIUM == 10
VAULT_KDF_PARALLEL_MEDIUM == 2
VAULT_KDF_MEM_LOW == 33554432
VAULT_KDF_ITER_LOW == 3
VAULT_KDF_PARALLEL_LOW == 1

Max(a, b) == IF a > b THEN a ELSE b

----------------------------------------------------------------------------
(* uint32_t sequence numbers, kept as <<high 16 bits, low 16 bits>> *)
U32(hi, lo) == <<hi, lo>>
U32Zero == U32(0, 0)
U32One == U32(0, 1)
U32Two == U32(0, 2)

\* x + 1 in 32-bit unsigned arithmetic
U32Inc(x) ==
    IF x[2] = UINT16_MOD - 1 THEN U32((x[1] + 1) % UINT16_MOD, 0) ELSE U32(x[1], x[2] + 1)

\* x - 1 for x > 0
U32Dec(x) ==
    IF x[2] = 0 THEN U32(x[1] - 1, UINT16_MOD - 1) ELSE U32(x[1], x[2] - 1)

U32Gt(a, b) == a[1] > b[1] \/ (a[1] = b[1] /\ a[2] > b[2])

\* x % m
U32Mod(x, m) == ((x[1] % m) * (UINT16_MOD % m) + (x[2] % m)) % m

----------------------------------------------------------------------------
(* Inputs *)
Passphrases == {"correct horse", "new passphrase", "short"}

PassLen(p) == IF p = "short" THEN 5 ELSE Len(p)

Names == {"a.txt", "bb.txt", "L4097"}

\* what import is called with: type, data, name
ImportInputs ==
    {<<VAULT_FILE_TYPE_TXT, "hello", "a.txt">>,
     <<VAULT_FILE_TYPE_VIDEO, "clip", "bb.txt">>,
     <<VAULT_FILE_TYPE_TXT, "hello", "L4097">>}

\* what rename is called with
RenameNames == {"bb.txt", "L4097"}

\* strlen of a name; "L4097" stands for a name of 4097 bytes
NameLen(n) == IF n = "L4097" THEN 4097 ELSE Len(n)

DataIds == {"hello", "clip"}

\* byte length of a plaintext; "clip" is one full chunk plus five bytes
DataLen(d) == IF d = "clip" THEN VAULT_CHUNK_SIZE + 5 ELSE Len(d)

----------------------------------------------------------------------------
(* Sequences *)
RECURSIVE SumLens(_)
SumLens(s) == IF s = <<>> THEN 0 ELSE s[1].len + SumLens(Tail(s))

RemoveAt(s, i) == [j \in 1..(Len(s) - 1) |-> IF j < i THEN s[j] ELSE s[j + 1]]

----------------------------------------------------------------------------
(* Symbolic cryptography *)

\* KEK derived by Argon2id from a passphrase and a salt
Kek(pass, salt) == <<pass, salt>>

\* wrapped master key: nonce || AEAD(kek, mk, aad = vault_id)
WrapMk(kek, mk, vid) == [kek |-> kek, mk |-> mk, vid |-> vid, intact |-> TRUE]

\* vault_aead_decrypt of a wrapped master key
UnwrapMkOk(w, kek, vid) == w.intact /\ w.kek = kek /\ w.vid = vid

ZeroWrappedMk == [kek |-> <<"", 0>>, mk |-> "", vid |-> 0, intact |-> FALSE]

\* wrapped DEK: AEAD(mk, dek, aad = (vault_id, file_id, 0))
WrapDek(mk, vid, fid) == [mk |-> mk, vid |-> vid, fid |-> fid, dek |-> fid]

\* ciphertext of a blob or chunk: AEAD(dek, pt, aad = (vault_id, file_id, chunk))
\* `part` names the plaintext: "all" of a data item, or its chunk number
Cipher(vid, fid, chunk, data, part) ==
    [kind |-> "ct", vid |-> vid, fid |-> fid, chunk |-> chunk, dek |-> fid,
     nonce |-> <<fid, chunk>>, pt |-> <<data, part>>]

Junk == [kind |-> "junk"]
Eof == [kind |-> "eof"]
HashSha == [kind |-> "sha256"]
HashZero == [kind |-> "zerohash"]

----------------------------------------------------------------------------
(* Header codec *)

\* journal_fill_slot
journal_fill_slot(seq, vid, salt, wmk) ==
    [seq |-> IF seq = U32Zero THEN U32One ELSE seq, vid |-> vid, salt |-> salt,
     wmk |-> wmk, mklen |-> WRAPPED_MK_SIZE, crc_ok |-> TRUE, readable |-> TRUE]

\* memset(&slot, 0) followed by journal_write_slot, which stores a fresh CRC
EmptySlot ==
    [seq |-> U32Zero, vid |-> 0, salt |-> 0, wmk |-> ZeroWrappedMk, mklen |-> 0,
     crc_ok |-> TRUE, readable |-> TRUE]

ZeroLegacy == [vid |-> 0, salt |-> 0, wmk |-> ZeroWrappedMk, crc_ok |-> FALSE]

JournalHeader(s0, s1) ==
    [magic |-> "VAULTJ1", super_ok |-> TRUE, slots |-> <<s0, s1>>,
     leg |-> ZeroLegacy]

LegacyHeader(vid, salt, wmk) ==
    [magic |-> "VAULTv1", super_ok |-> FALSE, slots |-> <<EmptySlot, EmptySlot>>,
     leg |-> [vid |-> vid, salt |-> salt, wmk |-> wmk, crc_ok |-> TRUE]]

\* journal_total_size
journal_total_size == SizeofJournalSuper + VAULT_JOURNAL_SLOT_COUNT * SizeofJournalSlot

\* header_total_size with wrapped_mk_len = WRAPPED_MK_SIZE
header_total_size == SizeofLegacyHeader + WRAPPED_MK_SIZE + 4

\* bytes the header occupies in a container file
DiskHeaderSize(hdr) == IF hdr.magic = "VAULTJ1" THEN journal_total_size ELSE header_total_size

\* journal_read_slot: result code for slot i of a journal header
journal_read_slot(hdr, i) ==
    IF ~hdr.slots[i].readable THEN "IO"
    ELSE IF hdr.slots[i].seq = U32Zero THEN "NOT_FOUND"
    ELSE IF hdr.slots[i].mklen # WRAPPED_MK_SIZE THEN "CORRUPTED"
    ELSE IF ~hdr.slots[i].crc_ok THEN "CORRUPTED"
    ELSE "OK"

\* a selection that takes the first usable slot and never compares seq
journal_select_slot_first(hdr) ==
    IF journal_read_slot(hdr, 1) = "OK" THEN 1
    ELSE IF journal_read_slot(hdr, 2) = "OK" THEN 2
    ELSE 0

\* journal_select_slot: 0 when no slot is usable, else the 1-based slot chosen.
\* The loop keeps the first slot unless a later one has a strictly greater seq.
journal_select_slot(hdr) ==
    LET ok1 == journal_read_slot(hdr, 1) = "OK"
        ok2 == journal_read_slot(hdr, 2) = "OK"
    IN  IF ok1 /\ ok2
        THEN (IF U32Gt(hdr.slots[2].seq, hdr.slots[1].seq) THEN 2 ELSE 1)
        ELSE IF ok1 THEN 1
        ELSE IF ok2 THEN 2
        ELSE 0

----------------------------------------------------------------------------
(* Index codec *)

\* bytes one entry takes in the index plaintext
EntryPlainSize(e) ==
    VAULT_ID_LEN + 1 + 8 + (2 + NameLen(e.name)) + (2 + Len(e.mime)) + 8
    + (2 + e.wrapped_dek_len) + 4
    + (IF e.chunk_count > 0 THEN e.chunk_count * (8 + 4 + VAULT_NONCE_LEN) ELSE 16)

RECURSIVE SumEntrySizes(_)
SumEntrySizes(es) ==
    IF es = <<>> THEN 0 ELSE EntryPlainSize(es[1]) + SumEntrySizes(Tail(es))

\* calculate_index_plaintext_size
calculate_index_plaintext_size(es) == 4 + SumEntrySizes(es)

\* index_choose_capacity
index_choose_capacity(required, current) ==
    LET grown == IF current < required
                 THEN Max(required + (required \div 2), required + VAULT_INDEX_GROWTH_SLACK)
                 ELSE current
    IN  IF grown < VAULT_INDEX_MIN_CAPACITY THEN VAULT_INDEX_MIN_CAPACITY ELSE grown

\* serialize_index: the plaintext buffer of `capacity` bytes; the length
\* fields of name and mime are 16 bits wide
serialize_index(es, capacity) ==
    [count |-> Len(es), padded |-> TRUE,
     len |-> IF capacity = 0 THEN calculate_index_plaintext_size(es) ELSE capacity,
     recs |-> [i \in 1..Len(es) |->
                 [e |-> es[i],
                  name_len |-> NameLen(es[i].name) % 65536,
                  mime_len |-> Len(es[i].mime) % 65536]]]

\* deserialize_index
deserialize_index(pt) ==
    IF pt.len < 4 THEN [rc |-> "CORRUPTED", entries |-> <<>>]
    ELSE IF pt.count > MaxEntryCount THEN [rc |-> "CORRUPTED", entries |-> <<>>]
    ELSE IF \E i \in 1..Len(pt.recs) :
               \/ pt.recs[i].name_len > MaxNameLen
               \/ pt.recs[i].mime_len > MaxMimeLen
               \/ pt.recs[i].e.wrapped_dek_len > MaxWrappedDekLen
         THEN [rc |-> "CORRUPTED", entries |-> <<>>]
    ELSE IF 4 + SumEntrySizes([i \in 1..Len(pt.recs) |-> pt.recs[i].e]) > pt.len
         THEN [rc |-> "CORRUPTED", entries |-> <<>>]
    ELSE [rc |-> "OK", entries |-> [i \in 1..Len(pt.recs) |-> pt.recs[i].e]]

\* index section: nonce || ct_len || AEAD(mk, plaintext, no aad); the nonce
\* is fresh, modelled as differing from the one it replaces
IndexSection(mk, pt, nonce) ==
    [nonce |-> nonce, ctlen |-> pt.len + VAULT_TAG_LEN,
     ct |-> [key |-> mk, nonce |-> nonce, pt |-> pt, intact |-> TRUE]]

\* bytes the index ciphertext really occupies on disk
IndexCtBytes(ix) == ix.ct.pt.len + VAULT_TAG_LEN

\* a fresh random nonce: one that is neither the nonce the index section
\* starts with nor the nonce its ciphertext was sealed with
FreshNonce(d) ==
    IF d.exists
    THEN CHOOSE n \in 0..2 : n # d.idx.nonce /\ n # d.idx.ct.nonce
    ELSE 0

----------------------------------------------------------------------------
(* The container file: header, index section, then data segments; the      *)
(* trailing 32-byte hash is the last segment.                              *)

NoDisk ==
    [exists |-> FALSE, hdr |-> JournalHeader(EmptySlot, EmptySlot),
     idx |-> IndexSection("", serialize_index(<<>>, 0), 0), data |-> <<>>]

DataStart(d) == DiskHeaderSize(d.hdr) + VAULT_NONCE_LEN + 8 + IndexCtBytes(d.idx)

FileSize(d) == DataStart(d) + SumLens(d.data)

\* offset of segment i
SegStart(d, i) == DataStart(d) + SumLens(SubSeq(d.data, 1, i - 1))

Seg(len, c) == [len |-> len, c |-> c]

\* the segments holding bytes [from, to) of the file's data area; a segment
\* cut by either end survives only as junk of the remaining length
RECURSIVE CutSegs(_, _, _, _)
CutSegs(segs, pos, from, to) ==
    IF segs = <<>> \/ pos >= to THEN <<>>
    ELSE LET s == segs[1]
             e == pos + s.len
             lo == Max(pos, from)
             hi == IF e < to THEN e ELSE to
         IN  (IF hi <= lo THEN <<>>
              ELSE IF lo = pos /\ hi = e THEN <<s>>
              ELSE <<Seg(hi - lo, Junk)>>)
             \o CutSegs(Tail(segs), e, from, to)

\* data bytes [from, to) of file d
DataRange(d, from, to) == CutSegs(d.data, DataStart(d), from, to)

\* pread of `len` bytes at `off`: "eof" on a short read, else what lies there
ReadAt(d, off, len) ==
    IF off + len > FileSize(d) THEN Eof
    ELSE IF \E i \in 1..Len(d.data) : SegStart(d, i) = off /\ d.data[i].len = len
         THEN d.data[CHOOSE i \in 1..Len(d.data) :
                         SegStart(d, i) = off /\ d.data[i].len = len].c
    ELSE Junk

----------------------------------------------------------------------------
(* The handle *)

ClosedHandle ==
    [is_open |-> FALSE, path |-> FALSE, vault_id |-> 0, master_key |-> "",
     salt |-> 0, wrapped_mk |-> ZeroWrappedMk, wrapped_mk_len |-> 0,
     header_is_journal |-> FALSE, header_seq |-> U32Zero, header_size |-> 0,
     entries |-> <<>>, total_size |-> 0, free_space |-> 0,
     index_capacity |-> 0, index_is_padded |-> FALSE]

\* vault_close
vault_close(g) == IF ~g.is_open THEN g ELSE ClosedHandle

\* vault_current_header_size
vault_current_header_size(g) ==
    IF g.header_size > 0 THEN g.header_size
    ELSE IF g.header_is_journal THEN journal_total_size
    ELSE header_total_size

\* end offset of one entry's last byte of ciphertext
RECURSIVE MaxChunkEnd(_)
MaxChunkEnd(cs) ==
    IF cs = <<>> THEN 0 ELSE Max(cs[1].offset + cs[1].length, MaxChunkEnd(Tail(cs)))

EntryEnd(e) ==
    IF e.chunk_count > 0 THEN MaxChunkEnd(e.chunks) ELSE e.data_offset + e.data_length

\* compute_used_space: the largest end offset over all entries
RECURSIVE compute_used_space(_)
compute_used_space(es) ==
    IF es = <<>> THEN 0 ELSE Max(EntryEnd(es[1]), compute_used_space(Tail(es)))

\* read_index: decrypts the index section at header_size and, when the
\* plaintext parses, installs the entries; it answers OK once decryption
\* succeeded, whatever deserialize_index said
read_index(g, d) ==
    LET ix == d.idx
        off == g.header_size
    IN  IF off + VAULT_NONCE_LEN + 8 > FileSize(d) THEN [rc |-> "IO", g |-> g]
        ELSE IF ix.ctlen > MaxIndexCtLen THEN [rc |-> "CORRUPTED", g |-> g]
        ELSE IF off + VAULT_NONCE_LEN + 8 + ix.ctlen > FileSize(d) THEN [rc |-> "IO", g |-> g]
        ELSE IF ix.ctlen < VAULT_TAG_LEN THEN [rc |-> "MEMORY", g |-> g]
        ELSE IF ~(/\ off = DiskHeaderSize(d.hdr)
                  /\ ix.ct.intact
                  /\ ix.ct.key = g.master_key
                  /\ ix.ct.nonce = ix.nonce
                  /\ ix.ctlen = IndexCtBytes(ix))
             THEN [rc |-> "AUTH_FAIL", g |-> g]
        ELSE LET g1 == [g EXCEPT !.index_capacity = ix.ctlen - VAULT_TAG_LEN,
                                 !.index_is_padded = ix.ct.pt.padded]
                 de == deserialize_index(ix.ct.pt)
             IN  [rc |-> "OK",
                  g |-> IF de.rc = "OK" THEN [g1 EXCEPT !.entries = de.entries] ELSE g1]

\* vault_open: [rc, g]
vault_open(g0, d, pass) ==
    LET g1 == vault_close(g0)
        isJ == d.hdr.magic = "VAULTJ1"
        isL == d.hdr.magic = "VAULTv1"
        sel == journal_select_slot(d.hdr)
    IN  IF ~d.exists THEN [rc |-> "IO", g |-> g1]
        ELSE IF ~isJ /\ ~isL THEN [rc |-> "CORRUPTED", g |-> g1]
        ELSE IF isJ /\ ~d.hdr.super_ok THEN [rc |-> "CORRUPTED", g |-> g1]
        ELSE IF isJ /\ sel = 0 THEN [rc |-> "CORRUPTED", g |-> g1]
        ELSE IF isL /\ ~d.hdr.leg.crc_ok THEN [rc |-> "CORRUPTED", g |-> g1]
        ELSE
          LET h == IF isJ THEN d.hdr.slots[sel] ELSE d.hdr.leg
              kek == Kek(pass, h.salt)
          IN  IF ~UnwrapMkOk(h.wmk, kek, h.vid) THEN [rc |-> "AUTH_FAIL", g |-> g1]
              ELSE
                LET g2 == [g1 EXCEPT !.master_key = h.wmk.mk,
                                     !.vault_id = h.vid,
                                     !.salt = h.salt,
                                     !.path = TRUE,
                                     !.wrapped_mk_len = WRAPPED_MK_SIZE,
                                     !.wrapped_mk = h.wmk,
                                     !.header_is_journal = isJ,
                                     !.header_seq = IF isJ THEN h.seq ELSE U32Zero,
                                     !.header_size = DiskHeaderSize(d.hdr)]
                    ri == read_index(g2, d)
                IN  IF ri.rc # "OK" THEN [rc |-> ri.rc, g |-> ri.g]
                    ELSE
                      LET total == FileSize(d)
                          used == compute_used_space(ri.g.entries)
                      IN  [rc |-> "OK",
                           g |-> [ri.g EXCEPT !.is_open = TRUE,
                                              !.total_size = total,
                                              !.free_space =
                                                 IF total > used THEN total - used ELSE 0]]

----------------------------------------------------------------------------
(* Reads *)

FindEntry(es, fid) ==
    IF \E i \in 1..Len(es) : es[i].file_id = fid
    THEN CHOOSE i \in 1..Len(es) :
             es[i].file_id = fid /\ \A j \in 1..(i - 1) : es[j].file_id # fid
    ELSE 0

\* unwrap_dek
unwrap_dek(g, e) ==
    IF e.wrapped_dek_len < VAULT_NONCE_LEN + VAULT_TAG_LEN THEN "CORRUPTED"
    ELSE IF /\ e.wrapped_dek.mk = g.master_key
            /\ e.wrapped_dek.vid = g.vault_id
            /\ e.wrapped_dek.fid = e.file_id
         THEN "OK"
    ELSE "AUTH_FAIL"

\* AEAD decryption of a blob or chunk read from the file
DecryptOk(g, e, c, chunk, nonce) ==
    /\ c.kind = "ct"
    /\ c.dek = e.wrapped_dek.dek
    /\ c.vid = g.vault_id
    /\ c.fid = e.file_id
    /\ c.chunk = chunk
    /\ c.nonce = nonce

NoData == <<"", "">>

\* vault_read_file: [rc, pt]
vault_read_file(g, d, fid) ==
    LET i == FindEntry(g.entries, fid)
        e == g.entries[i]
        c == ReadAt(d, e.data_offset, e.data_length)
    IN  IF ~g.is_open THEN [rc |-> "NOT_OPEN", pt |-> NoData]
        ELSE IF i = 0 THEN [rc |-> "NOT_FOUND", pt |-> NoData]
        ELSE IF e.chunk_count > 0 THEN [rc |-> "INVALID_PARAM", pt |-> NoData]
        ELSE IF unwrap_dek(g, e) # "OK" THEN [rc |-> unwrap_dek(g, e), pt |-> NoData]
        ELSE IF e.data_length = 0 THEN [rc |-> "INVALID_PARAM", pt |-> NoData]
        ELSE IF c.kind = "eof" THEN [rc |-> "IO", pt |-> NoData]
        ELSE IF e.data_length < VAULT_NONCE_LEN + VAULT_TAG_LEN
             THEN [rc |-> "CORRUPTED", pt |-> NoData]
        ELSE IF ~DecryptOk(g, e, c, 0, <<e.file_id, 0>>)
             THEN [rc |-> "AUTH_FAIL", pt |-> NoData]
        ELSE [rc |-> "OK", pt |-> c.pt]

\* vault_read_chunk answering a chunk index past the last chunk as it answers
\* an entry that is not chunked
vault_read_chunk_one_code(g, d, fid, chunk_idx) ==
    LET i == FindEntry(g.entries, fid)
        e == g.entries[i]
        ch == e.chunks[chunk_idx + 1]
        c == ReadAt(d, ch.offset, ch.length)
    IN  IF ~g.is_open THEN [rc |-> "NOT_OPEN", pt |-> NoData]
        ELSE IF i = 0 THEN [rc |-> "NOT_FOUND", pt |-> NoData]
        ELSE IF e.chunk_count = 0 THEN [rc |-> "INVALID_PARAM", pt |-> NoData]
        ELSE IF chunk_idx >= e.chunk_count THEN [rc |-> "INVALID_PARAM", pt |-> NoData]
        ELSE IF unwrap_dek(g, e) # "OK" THEN [rc |-> unwrap_dek(g, e), pt |-> NoData]
        ELSE IF ch.length = 0 THEN [rc |-> "INVALID_PARAM", pt |-> NoData]
        ELSE IF c.kind = "eof" THEN [rc |-> "IO", pt |-> NoData]
        ELSE IF ch.length < VAULT_TAG_LEN THEN [rc |-> "CORRUPTED", pt |-> NoData]
        ELSE IF ~DecryptOk(g, e, c, chunk_idx, ch.nonce)
             THEN [rc |-> "AUTH_FAIL", pt |-> NoData]
        ELSE [rc |-> "OK", pt |-> c.pt]

\* vault_read_chunk: [rc, pt]; chunk_idx counts from 0
vault_read_chunk(g, d, fid, chunk_idx) ==
    LET i == FindEntry(g.entries, fid)
        e == g.entries[i]
        ch == e.chunks[chunk_idx + 1]
        c == ReadAt(d, ch.offset, ch.length)
    IN  IF ~g.is_open THEN [rc |-> "NOT_OPEN", pt |-> NoData]
        ELSE IF i = 0 THEN [rc |-> "NOT_FOUND", pt |-> NoData]
        ELSE IF e.chunk_count = 0 THEN [rc |-> "INVALID_PARAM", pt |-> NoData]
        ELSE IF chunk_idx >= e.chunk_count THEN [rc |-> "NOT_FOUND", pt |-> NoData]
        ELSE IF unwrap_dek(g, e) # "OK" THEN [rc |-> unwrap_dek(g, e), pt |-> NoData]
        ELSE IF ch.length = 0 THEN [rc |-> "INVALID_PARAM", pt |-> NoData]
        ELSE IF c.kind = "eof" THEN [rc |-> "IO", pt |-> NoData]
        ELSE IF ch.length < VAULT_TAG_LEN THEN [rc |-> "CORRUPTED", pt |-> NoData]
        ELSE IF ~DecryptOk(g, e, c, chunk_idx, ch.nonce)
             THEN [rc |-> "AUTH_FAIL", pt |-> NoData]
        ELSE [rc |-> "OK", pt |-> c.pt]

----------------------------------------------------------------------------
(* Writing the container *)

\* a header writer that writes the journal flavor whatever the vault has
write_header_always_journal(g, seq, salt, wrapped_mk) ==
    JournalHeader(journal_fill_slot(IF seq = U32Zero THEN U32One ELSE seq,
                                    g.vault_id, salt, wrapped_mk),
                  EmptySlot)

\* write_header_for_current_format: the header bytes it writes
write_header_for_current_format(g, seq, salt, wrapped_mk) ==
    IF g.header_is_journal
    THEN LET safe_seq == IF seq = U32Zero THEN U32One ELSE seq
         IN  JournalHeader(
                 journal_fill_slot(safe_seq, g.vault_id, salt, wrapped_mk),
                 IF U32Gt(safe_seq, U32One)
                 THEN journal_fill_slot(U32Dec(safe_seq), g.vault_id, salt, wrapped_mk)
                 ELSE EmptySlot)
    ELSE LegacyHeader(g.vault_id, salt, wrapped_mk)

\* the single master key and vault id vault_create draws at random
NewMasterKey == "mk"
NewVaultId == 1

\* vault_create: [rc, d]; the handle is not touched
vault_create(d, pass, salt) ==
    IF PassLen(pass) < VAULT_MIN_PASSPHRASE_LEN
    THEN [rc |-> "PASSPHRASE_TOO_SHORT", d |-> d]
    ELSE IF d.exists THEN [rc |-> "ALREADY_EXISTS", d |-> d]
    ELSE [rc |-> "OK",
          d |-> [exists |-> TRUE,
                 hdr |-> JournalHeader(
                            journal_fill_slot(U32One, NewVaultId, salt,
                                WrapMk(Kek(pass, salt), NewMasterKey, NewVaultId)),
                            EmptySlot),
                 idx |-> IndexSection(NewMasterKey,
                            serialize_index(<<>>, index_choose_capacity(4, 0)), 0),
                 data |-> <<Seg(VAULT_HASH_LEN, HashSha)>>]]

\* every offset of every entry moved by delta
ShiftEntries(es, delta) ==
    [i \in 1..Len(es) |->
        IF es[i].chunk_count > 0
        THEN [es[i] EXCEPT !.chunks =
                 [c \in 1..Len(es[i].chunks) |->
                     [es[i].chunks[c] EXCEPT !.offset = @ + delta]]]
        ELSE [es[i] EXCEPT !.data_offset = @ + delta]]

\* pwrite of `segs` at `pos` inside or at the end of the data area
OverwriteFrom(d, pos, segs) ==
    LET end == pos + SumLens(segs)
    IN  [d EXCEPT !.data =
            DataRange(d, DataStart(d), pos) \o segs
            \o (IF end < FileSize(d) THEN DataRange(d, end, FileSize(d)) ELSE <<>>)]

\* capacity both index writers settle on before choosing their path
CurrentCapacity(g, d) ==
    LET old_capacity == IF d.idx.ctlen > VAULT_TAG_LEN
                        THEN d.idx.ctlen - VAULT_TAG_LEN ELSE 0
        capacity == IF g.index_capacity > 0 THEN g.index_capacity ELSE old_capacity
    IN  IF old_capacity > 0 /\ old_capacity # capacity THEN old_capacity ELSE capacity

\* where the data the writers copy ends: the file without its 32-byte hash
ContentSize(d) ==
    IF FileSize(d) > VAULT_HASH_LEN THEN FileSize(d) - VAULT_HASH_LEN ELSE FileSize(d)

\* outcomes of an I/O fault inside a write call
SaveFaults == {"none", "open", "index"}
AppendFaults == {"none", "open", "data", "index"}

\* vault_save_index_only: [rc, g, d]
\*   fault "open":  open()/fstat() of the container fails
\*   fault "index": fast path, the write after the nonce fails;
\*                  slow path, a write to the temp file (or the rename) fails
vault_save_index_only(g, d, fault) ==
    LET required_pt_len == calculate_index_plaintext_size(g.entries)
        header_size == vault_current_header_size(g)
        old_index_section_size == VAULT_NONCE_LEN + 8 + d.idx.ctlen
        capacity == CurrentCapacity(g, d)
        new_capacity == index_choose_capacity(required_pt_len, capacity)
        new_index_section_size == VAULT_NONCE_LEN + 8 + (new_capacity + VAULT_TAG_LEN)
        offset_delta == new_index_section_size - old_index_section_size
        shifted == ShiftEntries(g.entries, offset_delta)
        data_start == header_size + old_index_section_size
        data_size == IF ContentSize(d) > data_start THEN ContentSize(d) - data_start ELSE 0
        fastIdx == IndexSection(g.master_key, serialize_index(g.entries, capacity),
                                FreshNonce(d))
        gs == [g EXCEPT !.entries = shifted]
    IN  IF ~g.is_open \/ ~g.path THEN [rc |-> "NOT_OPEN", g |-> g, d |-> d]
        ELSE IF fault = "open" \/ ~d.exists THEN [rc |-> "IO", g |-> g, d |-> d]
        ELSE IF capacity >= required_pt_len /\ d.idx.ctlen = capacity + VAULT_TAG_LEN
        THEN \* fast path
             IF fault = "index"
             THEN [rc |-> "IO", g |-> g, d |-> [d EXCEPT !.idx.nonce = fastIdx.nonce]]
             ELSE [rc |-> "OK",
                   g |-> [g EXCEPT !.index_capacity = capacity, !.index_is_padded = TRUE],
                   d |-> [d EXCEPT !.idx = fastIdx]]
        ELSE \* slow path
             IF fault = "index"
             THEN [rc |-> "IO",
                   g |-> [gs EXCEPT !.header_size = DiskHeaderSize(
                             write_header_for_current_format(g, g.header_seq, g.salt,
                                                             g.wrapped_mk))],
                   d |-> d]
             ELSE LET hdr == write_header_for_current_format(g, g.header_seq, g.salt,
                                                             g.wrapped_mk)
                  IN  [rc |-> "OK",
                       g |-> [gs EXCEPT !.header_size = DiskHeaderSize(hdr),
                                        !.index_capacity = new_capacity,
                                        !.index_is_padded = TRUE],
                       d |-> [exists |-> TRUE, hdr |-> hdr,
                              idx |-> IndexSection(g.master_key,
                                         serialize_index(shifted, new_capacity),
                                         FreshNonce(d)),
                              data |-> DataRange(d, data_start, data_start + data_size)
                                       \o <<Seg(VAULT_HASH_LEN, HashZero)>>]]

\* the new entry with the offsets vault_append_entry gives it
RECURSIVE PlaceChunks(_, _, _)
PlaceChunks(chunks, lens, off) ==
    IF chunks = <<>> THEN <<>>
    ELSE <<[offset |-> off, length |-> lens[1].len, nonce |-> chunks[1].nonce]>>
         \o PlaceChunks(Tail(chunks), Tail(lens), off + lens[1].len)

PlaceEntry(e, payload, off) ==
    IF e.chunk_count > 0
    THEN [e EXCEPT !.chunks = PlaceChunks(e.chunks, payload, off)]
    ELSE [e EXCEPT !.data_offset = off, !.data_length = payload[1].len]

\* vault_append_entry: [rc, g, d]; payload is the sequence of segments to store
\*   fault "data":  fast path, the payload is written and the hash write fails;
\*                  rewrite path, a write to the temp file fails
\*   fault "index": fast path, payload and hash are written and the index write
\*                  after the nonce fails; rewrite path, as "data"
vault_append_entry(g, d, new_entry, payload, fault) ==
    LET header_size == vault_current_header_size(g)
        old_index_section_size == VAULT_NONCE_LEN + 8 + d.idx.ctlen
        old_data_start == header_size + old_index_section_size
        old_data_size == IF ContentSize(d) > old_data_start
                         THEN ContentSize(d) - old_data_start ELSE 0
        new_data_offset == old_data_start + old_data_size
        payload_size == SumLens(payload)
        new_entries == Append(g.entries, PlaceEntry(new_entry, payload, new_data_offset))
        required_pt_len == calculate_index_plaintext_size(new_entries)
        capacity == CurrentCapacity(g, d)
        new_capacity == index_choose_capacity(required_pt_len, capacity)
        new_index_section_size == VAULT_NONCE_LEN + 8 + (new_capacity + VAULT_TAG_LEN)
        offset_delta == new_index_section_size - old_index_section_size
        moved == ShiftEntries(new_entries, offset_delta)
        fastIdx == IndexSection(g.master_key, serialize_index(new_entries, capacity),
                                FreshNonce(d))
        dPayload == OverwriteFrom(d, new_data_offset, payload)
        dHash == OverwriteFrom(d, new_data_offset,
                               payload \o <<Seg(VAULT_HASH_LEN, HashZero)>>)
    IN  IF ~g.is_open \/ ~g.path THEN [rc |-> "NOT_OPEN", g |-> g, d |-> d]
        ELSE IF fault = "open" \/ ~d.exists THEN [rc |-> "IO", g |-> g, d |-> d]
        ELSE IF capacity >= required_pt_len /\ d.idx.ctlen = capacity + VAULT_TAG_LEN
        THEN \* fast path
             IF fault = "data" THEN [rc |-> "IO", g |-> g, d |-> dPayload]
             ELSE IF fault = "index"
             THEN [rc |-> "IO", g |-> g,
                   d |-> [dHash EXCEPT !.idx.nonce = fastIdx.nonce]]
             ELSE [rc |-> "OK",
                   g |-> [g EXCEPT !.entries = new_entries,
                                   !.index_capacity = capacity,
                                   !.index_is_padded = TRUE,
                                   !.total_size = old_data_start + old_data_size
                                                  + payload_size + VAULT_HASH_LEN,
                                   !.free_space = 0],
                   d |-> [dHash EXCEPT !.idx = fastIdx]]
        ELSE \* rewrite path
             LET hdr == write_header_for_current_format(g, g.header_seq, g.salt,
                                                        g.wrapped_mk)
                 last == moved[Len(moved)]
                 new_entry_start == IF new_entry.chunk_count > 0
                                    THEN last.chunks[1].offset ELSE last.data_offset
             IN  IF fault \in {"data", "index"}
                 THEN [rc |-> "IO", g |-> [g EXCEPT !.header_size = DiskHeaderSize(hdr)],
                       d |-> d]
                 ELSE [rc |-> "OK",
                       g |-> [g EXCEPT !.entries = moved,
                                       !.header_size = DiskHeaderSize(hdr),
                                       !.index_capacity = new_capacity,
                                       !.index_is_padded = TRUE,
                                       !.total_size = new_entry_start + payload_size
                                                      + VAULT_HASH_LEN,
                                       !.free_space = 0],
                       d |-> [exists |-> TRUE, hdr |-> hdr,
                              idx |-> IndexSection(g.master_key,
                                         serialize_index(moved, new_capacity),
                                         FreshNonce(d)),
                              data |-> DataRange(d, old_data_start,
                                                 old_data_start + old_data_size)
                                       \o payload
                                       \o <<Seg(VAULT_HASH_LEN, HashZero)>>]]

----------------------------------------------------------------------------
(* Entries: import, delete, rename, compact *)

\* number of chunks of a video of `len` bytes
ChunkCount(len) == (len + VAULT_CHUNK_SIZE - 1) \div VAULT_CHUNK_SIZE

ChunkPlainLen(len, i) ==
    IF len - i * VAULT_CHUNK_SIZE > VAULT_CHUNK_SIZE
    THEN VAULT_CHUNK_SIZE ELSE len - i * VAULT_CHUNK_SIZE

\* build_text_image_entry: [entry, payload]
build_text_image_entry(g, fid, type, name, mime, data) ==
    [entry |-> [file_id |-> fid, type |-> type, name |-> name, mime |-> mime,
                size |-> DataLen(data),
                wrapped_dek |-> WrapDek(g.master_key, g.vault_id, fid),
                wrapped_dek_len |-> VAULT_NONCE_LEN + VAULT_KEY_LEN + VAULT_TAG_LEN,
                chunk_count |-> 0, data_offset |-> 0, data_length |-> 0,
                chunks |-> <<>>],
     payload |-> <<Seg(VAULT_NONCE_LEN + DataLen(data) + VAULT_TAG_LEN,
                       Cipher(g.vault_id, fid, 0, data, "all"))>>]

\* build_video_entry: [entry, payload]
build_video_entry(g, fid, name, mime, data) ==
    LET n == ChunkCount(DataLen(data))
    IN  [entry |-> [file_id |-> fid, type |-> VAULT_FILE_TYPE_VIDEO, name |-> name,
                    mime |-> mime, size |-> DataLen(data),
                    wrapped_dek |-> WrapDek(g.master_key, g.vault_id, fid),
                    wrapped_dek_len |-> VAULT_NONCE_LEN + VAULT_KEY_LEN + VAULT_TAG_LEN,
                    chunk_count |-> n, data_offset |-> 0, data_length |-> 0,
                    chunks |-> [i \in 1..n |->
                                  [offset |-> 0, length |-> 0, nonce |-> <<fid, i - 1>>]]],
         payload |-> [i \in 1..n |->
                        Seg(ChunkPlainLen(DataLen(data), i - 1) + VAULT_TAG_LEN,
                            Cipher(g.vault_id, fid, i - 1, data, i - 1))]]

\* vault_import_file: [rc, g, d]
vault_import_file(g, d, fid, type, name, mime, data, fault) ==
    LET built == IF type = VAULT_FILE_TYPE_VIDEO
                 THEN build_video_entry(g, fid, name, mime, data)
                 ELSE build_text_image_entry(g, fid, type, name, mime, data)
    IN  IF ~g.is_open THEN [rc |-> "NOT_OPEN", g |-> g, d |-> d]
        ELSE IF DataLen(data) = 0 THEN [rc |-> "INVALID_PARAM", g |-> g, d |-> d]
        ELSE IF type \notin {VAULT_FILE_TYPE_TXT, VAULT_FILE_TYPE_IMG,
                             VAULT_FILE_TYPE_VIDEO}
             THEN [rc |-> "INVALID_PARAM", g |-> g, d |-> d]
        ELSE vault_append_entry(g, d, built.entry, built.payload, fault)

\* vault_delete_file that also drops the data region down to its hash
vault_delete_file_reclaims(g, d, fid, fault) ==
    LET i == FindEntry(g.entries, fid)
        r == vault_save_index_only([g EXCEPT !.entries = RemoveAt(g.entries, i)], d, fault)
    IN  IF ~g.is_open THEN [rc |-> "NOT_OPEN", g |-> g, d |-> d]
        ELSE IF i = 0 THEN [rc |-> "NOT_FOUND", g |-> g, d |-> d]
        ELSE IF r.rc # "OK" THEN r
        ELSE [r EXCEPT !.d.data = <<Seg(VAULT_HASH_LEN, HashZero)>>]

\* vault_delete_file: [rc, g, d]
vault_delete_file(g, d, fid, fault) ==
    LET i == FindEntry(g.entries, fid)
    IN  IF ~g.is_open THEN [rc |-> "NOT_OPEN", g |-> g, d |-> d]
        ELSE IF i = 0 THEN [rc |-> "NOT_FOUND", g |-> g, d |-> d]
        ELSE vault_save_index_only([g EXCEPT !.entries = RemoveAt(g.entries, i)], d, fault)

SystemNames ==
    {"__folder_map__", "__folder_map__.tmp", "__vault_title__", "__vault_title__.tmp"}

\* is_allowed_system_name
is_allowed_system_name(n) == n \in SystemNames

\* names of the model that start with two underscores
DunderNames == SystemNames \cup {"__x"}

\* strncmp(name, "__", 2) == 0
HasDunderPrefix(n) == n \in DunderNames

\* vault_rename_file: [rc, g, d]
vault_rename_file(g, d, fid, new_name, fault) ==
    LET i == FindEntry(g.entries, fid)
        current_name == g.entries[i].name
    IN  IF ~g.is_open THEN [rc |-> "NOT_OPEN", g |-> g, d |-> d]
        ELSE IF NameLen(new_name) = 0 \/ NameLen(new_name) > 4096
             THEN [rc |-> "INVALID_PARAM", g |-> g, d |-> d]
        ELSE IF HasDunderPrefix(new_name) /\ ~is_allowed_system_name(new_name)
             THEN [rc |-> "INVALID_PARAM", g |-> g, d |-> d]
        ELSE IF i = 0 THEN [rc |-> "NOT_FOUND", g |-> g, d |-> d]
        ELSE IF /\ HasDunderPrefix(current_name)
                /\ (~is_allowed_system_name(current_name)
                    \/ ~is_allowed_system_name(new_name))
             THEN [rc |-> "INVALID_PARAM", g |-> g, d |-> d]
        ELSE IF ~HasDunderPrefix(current_name) /\ is_allowed_system_name(new_name)
             THEN [rc |-> "INVALID_PARAM", g |-> g, d |-> d]
        ELSE vault_save_index_only([g EXCEPT !.entries[i].name = new_name], d, fault)

\* load_payloads_for_entries, one entry: the segments read at its offsets
LoadPayload(d, e) ==
    IF e.chunk_count > 0
    THEN [c \in 1..Len(e.chunks) |->
             Seg(e.chunks[c].length, ReadAt(d, e.chunks[c].offset, e.chunks[c].length))]
    ELSE <<Seg(e.data_length, ReadAt(d, e.data_offset, e.data_length))>>

\* result code of load_payloads_for_entries
LoadPayloadsRc(d, es) ==
    IF \E i \in 1..Len(es) : \E k \in 1..Len(LoadPayload(d, es[i])) :
           LoadPayload(d, es[i])[k].len = 0
    THEN "CORRUPTED"
    ELSE IF \E i \in 1..Len(es) : \E k \in 1..Len(LoadPayload(d, es[i])) :
           LoadPayload(d, es[i])[k].c.kind = "eof"
    THEN "IO"
    ELSE "OK"

\* vault_save_container's offset assignment: entries laid out back to back
RECURSIVE PlaceAll(_, _, _)
PlaceAll(es, pays, off) ==
    IF es = <<>> THEN <<>>
    ELSE <<PlaceEntry(es[1], pays[1], off)>>
         \o PlaceAll(Tail(es), Tail(pays), off + SumLens(pays[1]))

RECURSIVE Flatten(_)
Flatten(ss) == IF ss = <<>> THEN <<>> ELSE ss[1] \o Flatten(Tail(ss))

CompactFaults == {"none", "open", "temp"}

\* vault_save_container: [rc, g, d, entries]
\*   fault "temp": a write to the temp file (or the rename) fails
vault_save_container(g, d, entries, payloads, fault) ==
    LET required_pt_len == calculate_index_plaintext_size(entries)
        capacity == index_choose_capacity(required_pt_len, g.index_capacity)
        index_section_size == VAULT_NONCE_LEN + 8 + capacity + VAULT_TAG_LEN
        header_size == vault_current_header_size(g)
        placed == PlaceAll(entries, payloads, header_size + index_section_size)
        data_offset == header_size + index_section_size + SumLens(Flatten(payloads))
        hdr == write_header_for_current_format(g, g.header_seq, g.salt, g.wrapped_mk)
    IN  IF ~g.is_open \/ ~g.path
        THEN [rc |-> "NOT_OPEN", g |-> g, d |-> d, entries |-> entries]
        ELSE IF fault = "temp"
        THEN [rc |-> "IO", g |-> [g EXCEPT !.header_size = DiskHeaderSize(hdr)],
              d |-> d, entries |-> placed]
        ELSE [rc |-> "OK",
              g |-> [g EXCEPT !.header_size = DiskHeaderSize(hdr),
                              !.total_size = data_offset,
                              !.free_space = 0,
                              !.index_capacity = capacity,
                              !.index_is_padded = TRUE],
              d |-> [exists |-> TRUE, hdr |-> hdr,
                     idx |-> IndexSection(g.master_key,
                                serialize_index(placed, capacity), FreshNonce(d)),
                     data |-> Flatten(payloads) \o <<Seg(VAULT_HASH_LEN, HashSha)>>],
              entries |-> placed]

\* rebuild_container
rebuild_container(g, d, entries, payloads, fault) ==
    LET sc == vault_save_container(g, d, entries, payloads, fault)
    IN  IF sc.rc # "OK" THEN [rc |-> sc.rc, g |-> sc.g, d |-> sc.d]
        ELSE [rc |-> "OK", g |-> [sc.g EXCEPT !.entries = sc.entries], d |-> sc.d]

\* vault_compact: [rc, g, d, ran]; ran tells whether the container was rebuilt
vault_compact(g, d, fault) ==
    LET used_space == compute_used_space(g.entries)
        free_space == IF g.total_size > used_space THEN g.total_size - used_space ELSE 0
        payloads == [i \in 1..Len(g.entries) |-> LoadPayload(d, g.entries[i])]
        skip(rc) == [rc |-> rc, g |-> g, d |-> d, ran |-> FALSE]
    IN  IF ~g.is_open THEN skip("NOT_OPEN")
        ELSE IF g.total_size = 0 \/ used_space = 0 THEN skip("OK")
        ELSE IF free_space * 100 < g.total_size * 25 THEN skip("OK")
        ELSE IF fault = "open" \/ ~d.exists THEN skip("IO")
        ELSE IF LoadPayloadsRc(d, g.entries) # "OK" THEN skip(LoadPayloadsRc(d, g.entries))
        ELSE LET rb == rebuild_container(g, d, g.entries, payloads, fault)
             IN  [rc |-> rb.rc, g |-> rb.g, d |-> rb.d, ran |-> TRUE]

----------------------------------------------------------------------------
(* Passphrase rotation *)

ChangeFaults == {"none", "open", "slot"}

\* largest end offset, as migrate_legacy_to_journal recomputes it
MaxOffset(es) == compute_used_space(es)

\* migrate_legacy_to_journal: [rc, g, d]
\*   fault "open": the container cannot be opened for reading
\*   fault "slot": a write to the temp file (or the rename) fails
migrate_legacy_to_journal(g, d, new_salt, new_wrapped_mk, new_seq, fault) ==
    LET old_header_size == vault_current_header_size(g)
        old_index_section_size == VAULT_NONCE_LEN + 8 + d.idx.ctlen
        old_data_start == old_header_size + old_index_section_size
        data_size == IF ContentSize(d) > old_data_start
                     THEN ContentSize(d) - old_data_start ELSE 0
        required_pt_len == calculate_index_plaintext_size(g.entries)
        cap0 == CurrentCapacity(g, d)
        capacity == IF cap0 < required_pt_len
                    THEN index_choose_capacity(required_pt_len, cap0) ELSE cap0
        new_header_size == journal_total_size
        new_index_section_size == VAULT_NONCE_LEN + 8 + (capacity + VAULT_TAG_LEN)
        offset_delta == (new_header_size + new_index_section_size)
                        - (old_header_size + old_index_section_size)
        entries_copy == ShiftEntries(g.entries, offset_delta)
        total_size == new_header_size + new_index_section_size + data_size
                      + VAULT_HASH_LEN
        max_offset == MaxOffset(entries_copy)
    IN  IF ~g.is_open \/ ~g.path THEN [rc |-> "NOT_OPEN", g |-> g, d |-> d]
        ELSE IF fault \in {"open", "slot"} \/ ~d.exists
             THEN [rc |-> "IO", g |-> g, d |-> d]
        ELSE [rc |-> "OK",
              g |-> [g EXCEPT !.entries = entries_copy,
                              !.index_capacity = capacity,
                              !.index_is_padded = TRUE,
                              !.header_is_journal = TRUE,
                              !.header_seq = IF new_seq = U32Zero THEN U32One ELSE new_seq,
                              !.header_size = new_header_size,
                              !.salt = new_salt,
                              !.wrapped_mk = new_wrapped_mk,
                              !.wrapped_mk_len = WRAPPED_MK_SIZE,
                              !.total_size = total_size,
                              !.free_space = IF total_size > max_offset
                                             THEN total_size - max_offset ELSE 0],
              d |-> [exists |-> TRUE,
                     hdr |-> JournalHeader(
                                journal_fill_slot(new_seq, g.vault_id, new_salt,
                                                  new_wrapped_mk),
                                EmptySlot),
                     idx |-> IndexSection(g.master_key,
                                serialize_index(entries_copy, capacity), FreshNonce(d)),
                     data |-> DataRange(d, old_data_start, old_data_start + data_size)
                              \o <<Seg(VAULT_HASH_LEN, HashZero)>>]]

\* a rotation that writes the slot the sequence number does not select
RotationSlot_other(new_seq) == 1 - U32Mod(new_seq, VAULT_JOURNAL_SLOT_COUNT)

\* slot index a rotation writes for a sequence number
RotationSlot(new_seq) == U32Mod(new_seq, VAULT_JOURNAL_SLOT_COUNT)

\* vault_change_password: [rc, g, d]
\*   fault "open": the container cannot be opened for writing
\*   fault "slot": the slot write fails; at a sequence reset, the second one
vault_change_password(g, d, old_pass, new_pass, new_salt, fault) ==
    LET new_wrapped_mk == WrapMk(Kek(new_pass, new_salt), g.master_key, g.vault_id)
        new_seq == U32Inc(g.header_seq)
        slot0 == journal_fill_slot(U32One, g.vault_id, new_salt, new_wrapped_mk)
        slot1 == journal_fill_slot(U32Two, g.vault_id, new_salt, new_wrapped_mk)
        slot == journal_fill_slot(new_seq, g.vault_id, new_salt, new_wrapped_mk)
        commit(seq) == [g EXCEPT !.salt = new_salt,
                                 !.wrapped_mk = new_wrapped_mk,
                                 !.wrapped_mk_len = WRAPPED_MK_SIZE,
                                 !.header_seq = seq]
    IN  IF PassLen(old_pass) < VAULT_MIN_PASSPHRASE_LEN
           \/ PassLen(new_pass) < VAULT_MIN_PASSPHRASE_LEN
        THEN [rc |-> "PASSPHRASE_TOO_SHORT", g |-> g, d |-> d]
        ELSE IF ~g.is_open \/ ~g.path THEN [rc |-> "NOT_OPEN", g |-> g, d |-> d]
        ELSE IF ~UnwrapMkOk(g.wrapped_mk, Kek(old_pass, g.salt), g.vault_id)
        THEN [rc |-> "AUTH_FAIL", g |-> g, d |-> d]
        ELSE IF ~g.header_is_journal
        THEN migrate_legacy_to_journal(g, d, new_salt, new_wrapped_mk, U32One, fault)
        ELSE IF fault = "open" \/ ~d.exists THEN [rc |-> "IO", g |-> g, d |-> d]
        ELSE IF ~d.hdr.super_ok THEN [rc |-> "CORRUPTED", g |-> g, d |-> d]
        ELSE IF new_seq = U32Zero
        THEN IF fault = "slot"
             THEN [rc |-> "IO", g |-> g, d |-> [d EXCEPT !.hdr.slots[1] = slot0]]
             ELSE [rc |-> "OK", g |-> commit(U32Two),
                   d |-> [d EXCEPT !.hdr.slots = <<slot0, slot1>>]]
        ELSE IF fault = "slot" THEN [rc |-> "IO", g |-> g, d |-> d]
        ELSE [rc |-> "OK", g |-> commit(new_seq),
              d |-> [d EXCEPT !.hdr.slots[RotationSlot(new_seq) + 1] = slot]]

----------------------------------------------------------------------------
(* What a caller sees *)

\* shape of an entry: chunked or one blob
Shape(e) == IF e.chunk_count > 0 THEN "chunked" ELSE "blob"

\* the listing of the open vault: id, name, size and shape in index order
Listing(es) ==
    [i \in 1..Len(es) |->
        [file_id |-> es[i].file_id, name |-> es[i].name, size |-> es[i].size,
         shape |-> Shape(es[i])]]

\* what the caller expects of an entry it imported
Expected(fid, type, name, data) ==
    [file_id |-> fid, name |-> name, size |-> DataLen(data),
     shape |-> IF type = VAULT_FILE_TYPE_VIDEO THEN "chunked" ELSE "blob",
     data |-> data]

ExpectedListing(lv) ==
    [i \in 1..Len(lv) |->
        [file_id |-> lv[i].file_id, name |-> lv[i].name, size |-> lv[i].size,
         shape |-> lv[i].shape]]

MimeOf(type) == IF type = VAULT_FILE_TYPE_VIDEO THEN "video/mp4" ELSE "text/plain"

----------------------------------------------------------------------------
(* Initial states *)

FirstPass == "correct horse"

\* a legacy (VAULTv1) container written before indexes were padded: one text
\* entry and an index exactly as large as its plaintext
LegacyBuilt ==
    build_text_image_entry([master_key |-> NewMasterKey, vault_id |-> NewVaultId],
                           1, VAULT_FILE_TYPE_TXT, "a.txt", "text/plain", "hello")

LegacyIndexLen == calculate_index_plaintext_size(<<LegacyBuilt.entry>>)

LegacyEntry ==
    PlaceEntry(LegacyBuilt.entry, LegacyBuilt.payload,
               header_total_size + VAULT_NONCE_LEN + 8 + LegacyIndexLen + VAULT_TAG_LEN)

LegacyDisk ==
    [exists |-> TRUE,
     hdr |-> LegacyHeader(NewVaultId, 0,
                          WrapMk(Kek(FirstPass, 0), NewMasterKey, NewVaultId)),
     idx |-> IndexSection(NewMasterKey,
                [serialize_index(<<LegacyEntry>>, 0) EXCEPT !.padded = FALSE], 0),
     data |-> LegacyBuilt.payload \o <<Seg(VAULT_HASH_LEN, HashSha)>>]

\* a journal container holding the same entry, whose sequence number is two
\* rotations short of the 32-bit wrap, as a rewrite of the container leaves it
HighSeq == U32(UINT16_MOD - 1, UINT16_MOD - 2)

JournalEntry ==
    PlaceEntry(LegacyBuilt.entry, LegacyBuilt.payload,
               journal_total_size + VAULT_NONCE_LEN + 8 + VAULT_INDEX_MIN_CAPACITY
               + VAULT_TAG_LEN)

HighSeqDisk ==
    LET wmk == WrapMk(Kek(FirstPass, 0), NewMasterKey, NewVaultId)
    IN  [exists |-> TRUE,
         hdr |-> JournalHeader(journal_fill_slot(HighSeq, NewVaultId, 0, wmk),
                               journal_fill_slot(U32Dec(HighSeq), NewVaultId, 0, wmk)),
         idx |-> IndexSection(NewMasterKey,
                    serialize_index(<<JournalEntry>>, VAULT_INDEX_MIN_CAPACITY), 0),
         data |-> LegacyBuilt.payload \o <<Seg(VAULT_HASH_LEN, HashSha)>>]

\* what one opening of the file with a passphrase shows
OpenView(d, pass) ==
    LET o == vault_open(ClosedHandle, d, pass)
    IN  [rc |-> o.rc, list |-> IF o.rc = "OK" THEN Listing(o.g.entries) ELSE <<>>]

NoView == [rc |-> "", list |-> <<>>]

Res(op, rc) ==
    [op |-> op, rc |-> rc, pt |-> NoData, pass |-> "", before |-> NoView,
     after |-> NoView]

\* the three KDF profiles
KdfProfile(p) ==
    IF p = "HIGH"
    THEN [mem |-> VAULT_KDF_MEM_HIGH, iter |-> VAULT_KDF_ITER_HIGH,
          parallel |-> VAULT_KDF_PARALLEL_HIGH]
    ELSE IF p = "MEDIUM"
    THEN [mem |-> VAULT_KDF_MEM_MEDIUM, iter |-> VAULT_KDF_ITER_MEDIUM,
          parallel |-> VAULT_KDF_PARALLEL_MEDIUM]
    ELSE [mem |-> VAULT_KDF_MEM_LOW, iter |-> VAULT_KDF_ITER_LOW,
          parallel |-> VAULT_KDF_PARALLEL_LOW]

\* the salt, KDF fields and wrapped key of a closed handle
KdfClosed ==
    [is_open |-> FALSE, salt |-> 0, kdf_mem |-> 0, kdf_iter |-> 0, kdf_parallel |-> 0,
     wrapped_mk |-> ZeroWrappedMk]

\* the static initialisers of the KDF profile, no container, a closed handle
KdfInit ==
    /\ g_kdf = KdfProfile("LOW")
    /\ kdf_hdr = [exists |-> FALSE]
    /\ kdf_handle = KdfClosed

\* a NULL slot of g_active_imports
NoImport == [import_id |-> 0]

\* the static initialisers of the streaming engine
StreamInit ==
    /\ g_pending_dir = FALSE
    /\ g_active_imports = [s \in 1..MAX_ACTIVE_IMPORTS |-> NoImport]
    /\ pending = <<>>

Init ==
    /\ g_vault = ClosedHandle
    /\ res = Res("init", "OK")
    /\ faults = 0
    /\ ops = 0
    /\ rot = 0
    /\ tampered = "no"
    /\ StreamInit
    /\ KdfInit
    /\ \/ /\ disk = NoDisk
          /\ live = <<>>
          /\ curPass = ""
          /\ nfiles = 0
       \/ /\ disk = LegacyDisk
          /\ live = <<Expected(1, VAULT_FILE_TYPE_TXT, "a.txt", "hello")>>
          /\ curPass = FirstPass
          /\ nfiles = 1
       \/ /\ disk = HighSeqDisk
          /\ live = <<Expected(1, VAULT_FILE_TYPE_TXT, "a.txt", "hello")>>
          /\ curPass = FirstPass
          /\ nfiles = 1
    /\ oldIdx = disk.idx

----------------------------------------------------------------------------
(* API calls *)

Untouched == tampered = "no"

\* a create that also opens the handle on the container it has written
Create_opens(pass) ==
    LET r == vault_create(disk, pass, 0)
    IN  /\ Untouched
        /\ ~disk.exists
        /\ disk' = r.d
        /\ res' = Res("create", r.rc)
        /\ curPass' = IF r.rc = "OK" THEN pass ELSE curPass
        /\ oldIdx' = r.d.idx
        /\ g_vault' = IF r.rc = "OK" THEN vault_open(g_vault, r.d, pass).g ELSE g_vault
        /\ UNCHANGED <<live, faults, ops, nfiles, rot, tampered, stream_vars, kdf_vars>>

Create(pass) ==
    LET r == vault_create(disk, pass, 0)
    IN  /\ Untouched
        /\ ~disk.exists
        /\ disk' = r.d
        /\ res' = Res("create", r.rc)
        /\ curPass' = IF r.rc = "OK" THEN pass ELSE curPass
        /\ oldIdx' = r.d.idx
        /\ UNCHANGED <<g_vault, live, faults, ops, nfiles, rot, tampered, stream_vars, kdf_vars>>

Open(pass) ==
    LET r == vault_open(g_vault, disk, pass)
    IN  /\ g_vault' = r.g
        /\ res' = Res("open", r.rc)
        /\ UNCHANGED <<disk, live, curPass, faults, ops, nfiles, rot, oldIdx, tampered, stream_vars, kdf_vars>>

Close ==
    /\ g_vault.is_open
    /\ g_vault' = vault_close(g_vault)
    /\ res' = Res("close", "OK")
    /\ UNCHANGED <<disk, live, curPass, faults, ops, nfiles, rot, oldIdx, tampered, stream_vars, kdf_vars>>

\* bookkeeping shared by the write calls
Written(r, fault) ==
    /\ fault = "none" \/ faults < MaxFaults
    /\ ops < MaxOps
    /\ ops' = ops + 1
    /\ g_vault' = r.g
    /\ disk' = r.d
    /\ faults' = IF fault = "none" THEN faults ELSE faults + 1
    /\ UNCHANGED <<oldIdx, tampered, stream_vars, kdf_vars>>

Import(in, fault) ==
    LET fid == nfiles + 1
        r == vault_import_file(g_vault, disk, fid, in[1], in[3], MimeOf(in[1]),
                               in[2], fault)
    IN  /\ Untouched
        /\ g_vault.is_open
        /\ nfiles < MaxFiles
        /\ Written(r, fault)
        /\ res' = Res("import", r.rc)
        /\ nfiles' = fid
        /\ live' = IF r.rc = "OK"
                   THEN Append(live, Expected(fid, in[1], in[3], in[2])) ELSE live
        /\ UNCHANGED <<curPass, rot>>

LiveIndex(fid) ==
    IF \E i \in 1..Len(live) : live[i].file_id = fid
    THEN CHOOSE i \in 1..Len(live) : live[i].file_id = fid
    ELSE 0

Rename(fid, name, fault) ==
    LET r == vault_rename_file(g_vault, disk, fid, name, fault)
    IN  /\ Untouched
        /\ g_vault.is_open
        /\ Written(r, fault)
        /\ res' = Res("rename", r.rc)
        /\ live' = IF r.rc = "OK" /\ LiveIndex(fid) # 0
                   THEN [live EXCEPT ![LiveIndex(fid)].name = name] ELSE live
        /\ UNCHANGED <<curPass, nfiles, rot>>

Delete(fid, fault) ==
    LET r == vault_delete_file(g_vault, disk, fid, fault)
    IN  /\ Untouched
        /\ g_vault.is_open
        /\ Written(r, fault)
        /\ res' = Res("delete", r.rc)
        /\ live' = IF r.rc = "OK" /\ LiveIndex(fid) # 0
                   THEN RemoveAt(live, LiveIndex(fid)) ELSE live
        /\ UNCHANGED <<curPass, nfiles, rot>>

Compact(fault) ==
    LET r == vault_compact(g_vault, disk, fault)
    IN  /\ Untouched
        /\ g_vault.is_open
        /\ Written(r, fault)
        /\ res' = Res(IF r.ran THEN "compact" ELSE "compact_skipped", r.rc)
        /\ UNCHANGED <<live, curPass, nfiles, rot>>

ChangePassword(old_pass, new_pass, fault) ==
    LET r == vault_change_password(g_vault, disk, old_pass, new_pass, rot + 1, fault)
    IN  /\ Untouched
        /\ g_vault.is_open
        /\ rot < MaxRot
        /\ Written(r, fault)
        /\ res' = Res("change_password", r.rc)
        /\ rot' = rot + 1
        /\ curPass' = IF r.rc = "OK" THEN new_pass ELSE curPass
        /\ UNCHANGED <<live, nfiles>>

ReadFile(fid) ==
    LET r == vault_read_file(g_vault, disk, fid)
    IN  /\ g_vault.is_open
        /\ res' = [Res("read_file", r.rc) EXCEPT !.pt = r.pt]
        /\ UNCHANGED <<disk, g_vault, live, curPass, faults, ops, nfiles, rot, oldIdx, tampered, stream_vars, kdf_vars>>

ReadChunk(fid, chunk_idx) ==
    LET r == vault_read_chunk(g_vault, disk, fid, chunk_idx)
    IN  /\ g_vault.is_open
        /\ res' = [Res("read_chunk", r.rc) EXCEPT !.pt = r.pt]
        /\ UNCHANGED <<disk, g_vault, live, curPass, faults, ops, nfiles, rot, oldIdx, tampered, stream_vars, kdf_vars>>

MaxChunkIdx == 2

Next ==
    \/ \E p \in Passphrases : Create(p)
    \/ \E p \in Passphrases : Open(p)
    \/ Close
    \/ \E in \in ImportInputs, f \in AppendFaults : Import(in, f)
    \/ \E fid \in 1..MaxFiles, n \in RenameNames, f \in SaveFaults : Rename(fid, n, f)
    \/ \E fid \in 1..MaxFiles, f \in SaveFaults : Delete(fid, f)
    \/ \E f \in CompactFaults : Compact(f)
    \/ \E o \in Passphrases, n \in Passphrases, f \in ChangeFaults : ChangePassword(o, n, f)
    \/ \E fid \in 1..MaxFiles : ReadFile(fid)
    \/ \E fid \in 1..MaxFiles, c \in 0..MaxChunkIdx : ReadChunk(fid, c)

Spec == Init /\ [][Next]_vars

\* the calls that write the handle or the file; the reads change neither
NextWrite ==
    \/ \E p \in Passphrases : Create(p)
    \/ \E p \in Passphrases : Open(p)
    \/ Close
    \/ \E in \in ImportInputs, f \in AppendFaults : Import(in, f)
    \/ \E fid \in 1..MaxFiles, n \in RenameNames, f \in SaveFaults : Rename(fid, n, f)
    \/ \E fid \in 1..MaxFiles, f \in SaveFaults : Delete(fid, f)
    \/ \E f \in CompactFaults : Compact(f)
    \/ \E o \in Passphrases, n \in Passphrases, f \in ChangeFaults : ChangePassword(o, n, f)

SpecWrite == Init /\ [][NextWrite]_vars

----------------------------------------------------------------------------
(* A legacy vault holding a text entry and a two-chunk video entry: the    *)
(* vault on which deleting the last entry leaves a tail worth compacting.  *)

LegacyVideoBuilt ==
    build_video_entry([master_key |-> NewMasterKey, vault_id |-> NewVaultId],
                      2, "bb.txt", "video/mp4", "clip")

LegacyIndexLen2 ==
    calculate_index_plaintext_size(<<LegacyBuilt.entry, LegacyVideoBuilt.entry>>)

LegacyDataStart2 ==
    header_total_size + VAULT_NONCE_LEN + 8 + LegacyIndexLen2 + VAULT_TAG_LEN

LegacyEntries2 ==
    <<PlaceEntry(LegacyBuilt.entry, LegacyBuilt.payload, LegacyDataStart2),
      PlaceEntry(LegacyVideoBuilt.entry, LegacyVideoBuilt.payload,
                 LegacyDataStart2 + SumLens(LegacyBuilt.payload))>>

LegacyDisk2 ==
    [exists |-> TRUE,
     hdr |-> LegacyHeader(NewVaultId, 0,
                          WrapMk(Kek(FirstPass, 0), NewMasterKey, NewVaultId)),
     idx |-> IndexSection(NewMasterKey,
                [serialize_index(LegacyEntries2, 0) EXCEPT !.padded = FALSE], 0),
     data |-> LegacyBuilt.payload \o LegacyVideoBuilt.payload
              \o <<Seg(VAULT_HASH_LEN, HashSha)>>]

InitRebuild ==
    /\ g_vault = ClosedHandle
    /\ res = Res("init", "OK")
    /\ faults = 0
    /\ ops = 0
    /\ rot = 0
    /\ tampered = "no"
    /\ StreamInit
    /\ KdfInit
    /\ disk = LegacyDisk2
    /\ live = <<Expected(1, VAULT_FILE_TYPE_TXT, "a.txt", "hello"),
                Expected(2, VAULT_FILE_TYPE_VIDEO, "bb.txt", "clip")>>
    /\ curPass = FirstPass
    /\ nfiles = 2
    /\ oldIdx = disk.idx

NextRebuild ==
    \/ \E p \in Passphrases : Open(p)
    \/ Close
    \/ \E fid \in 1..MaxFiles, n \in RenameNames, f \in SaveFaults : Rename(fid, n, f)
    \/ \E fid \in 1..MaxFiles, f \in SaveFaults : Delete(fid, f)
    \/ \E f \in CompactFaults : Compact(f)
    \/ \E o \in Passphrases, n \in Passphrases, f \in ChangeFaults : ChangePassword(o, n, f)

SpecRebuild == InitRebuild /\ [][NextRebuild]_vars

\* vault_get_stats: [rc, total_size, free_space]
vault_get_stats(g) ==
    IF ~g.is_open THEN [rc |-> "NOT_OPEN", total_size |-> 0, free_space |-> 0]
    ELSE [rc |-> "OK", total_size |-> g.total_size, free_space |-> g.free_space]

----------------------------------------------------------------------------
(* Calls made while no vault is open *)

ClosedOps ==
    {"import", "read_file", "read_chunk", "delete", "rename", "compact",
     "get_stats", "change_password"}

\* one API call on the closed handle; every callee tests g_vault.is_open itself
CallWhileClosed(op, old_pass, new_pass) ==
    LET keep(rc) == [rc |-> rc, g |-> g_vault, d |-> disk]
        c == vault_compact(g_vault, disk, "none")
        r == CASE op = "import" ->
                    vault_import_file(g_vault, disk, nfiles + 1, VAULT_FILE_TYPE_TXT,
                                      "a.txt", "text/plain", "hello", "none")
               [] op = "read_file" -> keep(vault_read_file(g_vault, disk, 1).rc)
               [] op = "read_chunk" -> keep(vault_read_chunk(g_vault, disk, 1, 0).rc)
               [] op = "delete" -> vault_delete_file(g_vault, disk, 1, "none")
               [] op = "rename" -> vault_rename_file(g_vault, disk, 1, "bb.txt", "none")
               [] op = "compact" -> [rc |-> c.rc, g |-> c.g, d |-> c.d]
               [] op = "get_stats" -> keep(vault_get_stats(g_vault).rc)
               [] op = "change_password" ->
                    vault_change_password(g_vault, disk, old_pass, new_pass,
                                          rot + 1, "none")
    IN  /\ Untouched
        /\ ~g_vault.is_open
        /\ g_vault' = r.g
        /\ disk' = r.d
        /\ res' = Res(op, r.rc)
        /\ UNCHANGED <<live, curPass, faults, ops, nfiles, rot, oldIdx, tampered, stream_vars, kdf_vars>>

NextClosed ==
    \/ NextWrite
    \/ \E op \in ClosedOps, o \in Passphrases, n \in Passphrases :
          CallWhileClosed(op, o, n)

SpecClosed == Init /\ [][NextClosed]_vars

----------------------------------------------------------------------------
(* Imports and renames with names that start with two underscores *)

\* an ordinary name, a reserved name off the allow-list, and two system names
GuardedNames == {"a.txt", "__x", "__folder_map__", "__vault_title__"}

NextNames ==
    \/ \E p \in Passphrases : Create(p)
    \/ \E p \in Passphrases : Open(p)
    \/ Close
    \/ \E n \in GuardedNames : Import(<<VAULT_FILE_TYPE_TXT, "hello", n>>, "none")
    \/ \E fid \in 1..MaxFiles, n \in GuardedNames : Rename(fid, n, "none")

SpecNames == Init /\ [][NextNames]_vars

----------------------------------------------------------------------------
(* Streaming import (vault_streaming.c).  g_pending_dir is TRUE once        *)
(* streaming_init has set it.  pending[id] is the staging directory         *)
(* .pending_imports/<id>/: its .state file and its chunk_%08u.enc files,    *)
(* keyed by chunk index.  Import ids are handed out in order of creation.   *)
(* The time stamps of a session (created_at, updated_at) feed only the      *)
(* progress callback and are left out.                                      *)

\* bounds: imports started in one run and streaming calls made in one run
MaxImports == 2
MaxStreamOps == 6

\* the chunk indexes streaming_write_chunk is called with: the two chunks of
\* the larger source and one index past them
ChunkIndexes == {0, 1, 2}

\* find_active_slot: the first slot holding import `id`, 0 for -1
find_active_slot(slots, id) ==
    IF \E s \in 1..MAX_ACTIVE_IMPORTS : slots[s].import_id = id
    THEN CHOOSE s \in 1..MAX_ACTIVE_IMPORTS :
             slots[s].import_id = id /\ \A t \in 1..(s - 1) : slots[t].import_id # id
    ELSE 0

\* get_free_slot: the first NULL slot, 0 for -1
get_free_slot(slots) == find_active_slot(slots, 0)

\* the staging directory of import `id` exists and can be located
HasDir(pend, id) == g_pending_dir /\ id \in 1..Len(pend) /\ pend[id].exists

\* outcome of a streaming call with its import_id and its out-parameter or,
\* for streaming_write_chunk, its chunk index
StreamRes(op, rc, id, resume_from) ==
    Res(op, rc) @@ [import_id |-> id, resume_from |-> resume_from]

\* the state streaming_start gives a new import
NewImport(g, id, fid, source_hash, file_size) ==
    [import_id |-> id, file_id |-> fid, source_hash |-> source_hash,
     file_name |-> "bb.txt", mime_type |-> "video/mp4",
     file_type |-> VAULT_FILE_TYPE_VIDEO, file_size |-> file_size,
     total_chunks |-> (file_size + STREAMING_CHUNK_SIZE - 1) \div STREAMING_CHUNK_SIZE,
     completed_chunks |-> 0, bytes_written |-> 0,
     wrapped_dek |-> WrapDek(g.master_key, g.vault_id, fid),
     wrapped_dek_len |-> VAULT_NONCE_LEN + VAULT_KEY_LEN + VAULT_TAG_LEN]

\* streaming_start (sizes above STREAMING_MAX_FILE_SIZE are not among the inputs)
StreamingStart(source_hash, file_size, limit) ==
    LET matches == {i \in 1..Len(pending) :
                       pending[i].exists /\ pending[i].state.source_hash = source_hash}
        free == get_free_slot(g_active_imports)
        id == Len(pending) + 1
        fid == nfiles + 1
        state == NewImport(g_vault, id, fid, source_hash, file_size)
    IN  /\ IF ~g_vault.is_open
           THEN /\ res' = StreamRes("streaming_start", "VAULT_NOT_OPEN", 0, 0)
                /\ UNCHANGED <<g_pending_dir, g_active_imports, pending, nfiles>>
           ELSE IF matches # {}
           THEN \E i \in matches :
                   /\ res' = StreamRes("streaming_start", "OK", i,
                                       pending[i].state.completed_chunks)
                   /\ g_pending_dir' = TRUE
                   /\ g_active_imports' =
                        IF free > 0
                        THEN [g_active_imports EXCEPT ![free] = pending[i].state]
                        ELSE g_active_imports
                   /\ UNCHANGED <<pending, nfiles>>
           ELSE /\ Len(pending) < limit
                /\ res' = StreamRes("streaming_start", "OK", id, 0)
                /\ g_pending_dir' = TRUE
                /\ pending' = Append(pending,
                                 [exists |-> TRUE, state |-> state, chunks |-> <<>>])
                /\ g_active_imports' =
                     IF free > 0 THEN [g_active_imports EXCEPT ![free] = state]
                     ELSE g_active_imports
                /\ nfiles' = fid
        /\ ops < MaxStreamOps
        /\ ops' = ops + 1
        /\ UNCHANGED <<disk, g_vault, live, curPass, faults, rot, oldIdx, tampered, kdf_vars>>

\* streaming_write_chunk
StreamingWriteChunk(id, data, chunk_index) ==
    LET slot == find_active_slot(g_active_imports, id)
        free == get_free_slot(g_active_imports)
        state == IF slot > 0 THEN g_active_imports[slot] ELSE pending[id].state
        held == IF slot > 0 THEN slot ELSE free
        loaded == IF held > 0 THEN [g_active_imports EXCEPT ![held] = state]
                  ELSE g_active_imports
        after == [state EXCEPT !.completed_chunks = chunk_index + 1,
                               !.bytes_written = @ + DataLen(data)]
        file == Seg(VAULT_NONCE_LEN + DataLen(data) + VAULT_TAG_LEN,
                    Cipher(g_vault.vault_id, state.file_id, chunk_index, data, "all"))
        saved == chunk_index % 10 = 9 \/ after.completed_chunks = after.total_chunks
        rc == IF ~g_vault.is_open THEN "VAULT_NOT_OPEN"
              ELSE IF slot = 0 /\ ~g_pending_dir THEN "MEMORY"
              ELSE IF slot = 0 /\ ~HasDir(pending, id) THEN "NOT_FOUND"
              ELSE IF chunk_index >= state.total_chunks THEN "INVALID_PARAM"
              ELSE IF unwrap_dek(g_vault, state) # "OK" THEN unwrap_dek(g_vault, state)
              ELSE IF ~HasDir(pending, id) THEN "IO"
              ELSE "OK"
    IN  /\ ops < MaxStreamOps
        /\ ops' = ops + 1
        /\ res' = StreamRes("streaming_write_chunk", rc, id, chunk_index)
        /\ g_active_imports' =
             IF rc \in {"VAULT_NOT_OPEN", "MEMORY", "NOT_FOUND"} THEN g_active_imports
             ELSE IF rc = "OK" /\ held > 0 THEN [g_active_imports EXCEPT ![held] = after]
             ELSE loaded
        /\ pending' =
             IF rc # "OK" THEN pending
             ELSE [pending EXCEPT
                      ![id].chunks = (chunk_index :> file) @@ @,
                      ![id].state = IF saved THEN after ELSE @]
        /\ UNCHANGED <<disk, g_vault, live, curPass, faults, nfiles, rot, oldIdx,
                       tampered, g_pending_dir, kdf_vars>>

\* streaming_abort: [rc, slots, pend]
streaming_abort(slots, pend, id) ==
    LET slot == find_active_slot(slots, id)
        freed == IF slot > 0 /\ id # 0 THEN [slots EXCEPT ![slot] = NoImport] ELSE slots
    IN  IF ~g_pending_dir THEN [rc |-> "MEMORY", slots |-> freed, pend |-> pend]
        ELSE [rc |-> "OK", slots |-> freed,
              pend |-> IF id \in 1..Len(pend)
                       THEN [pend EXCEPT ![id] = [exists |-> FALSE, state |-> NoImport,
                                                  chunks |-> <<>>]]
                       ELSE pend]

\* the test streaming_finish makes before it builds the entry
AllChunksComplete_any(state) == TRUE

AllChunksComplete(state) == state.completed_chunks = state.total_chunks

\* streaming_finish: [rc, g, d, slots, pend, appended]; `zero_is_null` is
\* whether calloc(0, n) returns NULL, which matters for an import of no chunks
streaming_finish(id, fault, zero_is_null) ==
    LET slot == find_active_slot(g_active_imports, id)
        state == IF slot > 0 THEN g_active_imports[slot] ELSE pending[id].state
        slots1 == IF slot > 0 THEN [g_active_imports EXCEPT ![slot] = NoImport]
                  ELSE g_active_imports
        ab == streaming_abort(slots1, pending, id)
        n == state.total_chunks
        files == pending[id].chunks
        entry == [file_id |-> state.file_id, type |-> state.file_type,
                  name |-> state.file_name, mime |-> state.mime_type,
                  size |-> state.file_size, wrapped_dek |-> state.wrapped_dek,
                  wrapped_dek_len |-> state.wrapped_dek_len,
                  chunk_count |-> n, data_offset |-> 0, data_length |-> 0,
                  chunks |-> [i \in 1..n |->
                                [offset |-> 0,
                                 length |-> files[i - 1].len - VAULT_NONCE_LEN,
                                 nonce |-> files[i - 1].c.nonce]]]
        \* an import of no chunks hands over a payload of no bytes
        payload == IF n = 0 THEN <<Seg(0, Junk)>>
                   ELSE [i \in 1..n |->
                           Seg(files[i - 1].len - VAULT_NONCE_LEN, files[i - 1].c)]
        r == vault_append_entry(g_vault, disk, entry, payload, fault)
        Same(rc) == [rc |-> rc, g |-> g_vault, d |-> disk, slots |-> g_active_imports,
                     pend |-> pending, appended |-> FALSE]
        Aborted(rc) == [rc |-> rc, g |-> g_vault, d |-> disk, slots |-> ab.slots,
                        pend |-> ab.pend, appended |-> FALSE]
    IN  IF ~g_vault.is_open THEN Same("VAULT_NOT_OPEN")
        ELSE IF slot = 0 /\ ~g_pending_dir THEN Same("MEMORY")
        ELSE IF slot = 0 /\ ~HasDir(pending, id) THEN Same("NOT_FOUND")
        ELSE IF ~AllChunksComplete(state) THEN Aborted("INVALID_PARAM")
        ELSE IF n = 0 /\ zero_is_null THEN Aborted("MEMORY")
        ELSE IF \E i \in 0..(n - 1) : ~HasDir(pending, id) \/ i \notin DOMAIN files
             THEN Aborted("NOT_FOUND")
        ELSE IF \E i \in 0..(n - 1) : files[i].len < VAULT_NONCE_LEN + VAULT_TAG_LEN
             THEN Aborted("CHUNK_CORRUPTED")
        ELSE IF r.rc # "OK"
             THEN [rc |-> "IO", g |-> r.g, d |-> r.d, slots |-> ab.slots,
                   pend |-> ab.pend, appended |-> FALSE]
        ELSE [rc |-> "OK", g |-> r.g, d |-> r.d, slots |-> ab.slots,
              pend |-> ab.pend, appended |-> TRUE]

StreamingFinish(id, fault, zero_is_null) ==
    LET r == streaming_finish(id, fault, zero_is_null)
    IN  /\ fault = "none" \/ faults < MaxFaults
        /\ ops < MaxStreamOps
        /\ ops' = ops + 1
        /\ faults' = IF fault = "none" THEN faults ELSE faults + 1
        /\ res' = StreamRes("streaming_finish", r.rc, id, 0)
        /\ g_vault' = r.g
        /\ disk' = r.d
        /\ g_active_imports' = r.slots
        /\ pending' = r.pend
        /\ UNCHANGED <<live, curPass, nfiles, rot, oldIdx, tampered, g_pending_dir, kdf_vars>>

StreamingAbort(id) ==
    LET r == streaming_abort(g_active_imports, pending, id)
    IN  /\ ops < MaxStreamOps
        /\ ops' = ops + 1
        /\ res' = StreamRes("streaming_abort", r.rc, id, 0)
        /\ g_active_imports' = r.slots
        /\ pending' = r.pend
        /\ UNCHANGED <<disk, g_vault, live, curPass, faults, nfiles, rot, oldIdx,
                       tampered, g_pending_dir, kdf_vars>>

\* the process ends and a new one starts: the statics are back at their
\* initialisers, the container and the staging directories stay
Restart ==
    /\ res' = Res("restart", "OK")
    /\ g_vault' = ClosedHandle
    /\ g_pending_dir' = FALSE
    /\ g_active_imports' = [s \in 1..MAX_ACTIVE_IMPORTS |-> NoImport]
    /\ g_kdf' = KdfProfile("LOW")
    /\ kdf_handle' = KdfClosed
    /\ UNCHANGED <<disk, live, curPass, faults, ops, nfiles, rot, oldIdx, tampered,
                   pending, kdf_hdr>>

\* the process dies inside streaming_finish after vault_append_entry has
\* returned OK and before streaming_abort removes the staging directory
FinishDies(id) ==
    LET r == streaming_finish(id, "none", FALSE)
    IN  /\ ops < MaxStreamOps
        /\ r.appended
        /\ ops' = ops + 1
        /\ res' = StreamRes("died", "", id, 0)
        /\ disk' = r.d
        /\ g_vault' = ClosedHandle
        /\ g_pending_dir' = FALSE
        /\ g_active_imports' = [s \in 1..MAX_ACTIVE_IMPORTS |-> NoImport]
        /\ g_kdf' = KdfProfile("LOW")
        /\ kdf_handle' = KdfClosed
        /\ UNCHANGED <<live, curPass, faults, nfiles, rot, oldIdx, tampered, pending,
                       kdf_hdr>>

\* what streaming_start is called with: source hash and file size (the hash
\* covers the size): a source of two chunks and an empty one
StreamSources == {<<"h1", STREAMING_CHUNK_SIZE + 1>>, <<"h2", 0>>}

\* a journal vault holding a.txt, closed, and no import staged
InitStream == Init /\ disk = HighSeqDisk

\* the calls are made with import ids that streaming_start has returned
NextStream ==
    \/ Open(FirstPass)
    \/ \E src \in StreamSources : StreamingStart(src[1], src[2], MaxImports)
    \/ \E id \in 1..Len(pending), data \in {"hello", "world"}, c \in ChunkIndexes :
          StreamingWriteChunk(id, data, c)
    \/ \E id \in 1..Len(pending), z \in BOOLEAN : StreamingFinish(id, "none", z)
    \/ \E id \in 1..Len(pending) : StreamingAbort(id)
    \/ Restart
    \/ \E id \in 1..Len(pending) : FinishDies(id)

SpecStream == InitStream /\ [][NextStream]_vars

\* all four slots taken: the vault is open and four imports of two chunks
\* have been started and are active
InitSlots ==
    LET g == vault_open(ClosedHandle, HighSeqDisk, FirstPass).g
        started == [i \in 1..MAX_ACTIVE_IMPORTS |->
                      NewImport(g, i, i + 1, <<"s", i>>, STREAMING_CHUNK_SIZE + 1)]
    IN  /\ disk = HighSeqDisk
        /\ g_vault = g
        /\ res = Res("init", "OK")
        /\ live = <<Expected(1, VAULT_FILE_TYPE_TXT, "a.txt", "hello")>>
        /\ curPass = FirstPass
        /\ faults = 0
        /\ ops = 0
        /\ nfiles = MAX_ACTIVE_IMPORTS + 1
        /\ rot = 0
        /\ oldIdx = disk.idx
        /\ tampered = "no"
        /\ g_pending_dir = TRUE
        /\ g_active_imports = started
        /\ pending = [i \in 1..MAX_ACTIVE_IMPORTS |->
                        [exists |-> TRUE, state |-> started[i], chunks |-> <<>>]]
        /\ KdfInit

\* a fifth import while the four slots are taken, and the first one ending
NextSlots ==
    \/ \E src \in StreamSources :
          StreamingStart(src[1], src[2], MAX_ACTIVE_IMPORTS + 1)
    \/ \E data \in {"hello", "world"}, c \in ChunkIndexes :
          StreamingWriteChunk(MAX_ACTIVE_IMPORTS + 1, data, c)
    \/ \E z \in BOOLEAN : StreamingFinish(MAX_ACTIVE_IMPORTS + 1, "none", z)
    \/ StreamingAbort(1)

SpecSlots == InitSlots /\ [][NextSlots]_vars

----------------------------------------------------------------------------
(* A failing fsync.  Every fsync() in the write paths is a statement of its *)
(* own, `fsync(fd);`, whose result is not looked at, so a call in which the *)
(* fsync fails goes on as a call without fault: fault "fsync" matches none  *)
(* of the faults the write paths react to.                                  *)

FsyncFaults == {"none", "fsync"}

NextFsync ==
    \/ \E p \in Passphrases : Create(p)
    \/ \E p \in Passphrases : Open(p)
    \/ \E in \in ImportInputs, f \in FsyncFaults : Import(in, f)
    \/ \E fid \in 1..MaxFiles, n \in RenameNames, f \in FsyncFaults : Rename(fid, n, f)
    \/ \E fid \in 1..MaxFiles, f \in FsyncFaults : Delete(fid, f)
    \/ \E f \in FsyncFaults : Compact(f)
    \/ \E o \in Passphrases, n \in Passphrases, f \in FsyncFaults : ChangePassword(o, n, f)

SpecFsync == Init /\ [][NextFsync]_vars

----------------------------------------------------------------------------
(* Key derivation.  The container model above folds Argon2id into           *)
(* Kek(pass, salt); this section keeps what that leaves out: the key        *)
(* depends on passphrase, salt, iterations and memory limit, and a          *)
(* derivation can fail for want of memory.  kdf_hdr and kdf_handle carry    *)
(* the fields of the selected header and of g_vault that key derivation     *)
(* reads and writes.                                                        *)

\* Argon2id: the key is a function of all four inputs
crypto_pwhash(pass, salt, iterations, mem_limit) == <<pass, salt, iterations, mem_limit>>

vault_set_kdf_profile_by_ram(total_ram_mb) ==
    IF total_ram_mb >= 4096 THEN KdfProfile("HIGH")
    ELSE IF total_ram_mb >= 2048 THEN KdfProfile("MEDIUM")
    ELSE KdfProfile("LOW")

\* a derivation that falls back to LOW and leaves the statics as they were
vault_kdf_derive_keeps_profile(profile, pass, salt, oom) ==
    IF oom = 0
    THEN [rc |-> "OK", profile |-> profile,
          key |-> crypto_pwhash(pass, salt, profile.iter, profile.mem)]
    ELSE IF profile.mem > VAULT_KDF_MEM_LOW /\ oom = 1
    THEN [rc |-> "OK", profile |-> profile,
          key |-> crypto_pwhash(pass, salt, VAULT_KDF_ITER_LOW, VAULT_KDF_MEM_LOW)]
    ELSE [rc |-> "MEMORY", profile |-> profile, key |-> <<>>]

\* vault_kdf_derive: [rc, key, profile], profile being the statics afterwards;
\* oom is the number of crypto_pwhash calls that fail, first call first
vault_kdf_derive(profile, pass, salt, oom) ==
    IF oom = 0
    THEN [rc |-> "OK", profile |-> profile,
          key |-> crypto_pwhash(pass, salt, profile.iter, profile.mem)]
    ELSE IF profile.mem > VAULT_KDF_MEM_LOW /\ oom = 1
    THEN [rc |-> "OK", profile |-> KdfProfile("LOW"),
          key |-> crypto_pwhash(pass, salt, VAULT_KDF_ITER_LOW, VAULT_KDF_MEM_LOW)]
    ELSE [rc |-> "MEMORY", profile |-> profile, key |-> <<>>]

\* vault_kdf_derive_with_params: [rc, key]; no fallback
vault_kdf_derive_with_params(pass, salt, mem_limit, iterations, oom) ==
    IF oom THEN [rc |-> "MEMORY", key |-> <<>>]
    ELSE [rc |-> "OK", key |-> crypto_pwhash(pass, salt, iterations, mem_limit)]

validate_kdf_params(mem_limit, iterations, parallel) ==
    /\ mem_limit >= VAULT_KDF_MEM_LOW /\ mem_limit <= VAULT_KDF_MEM_HIGH
    /\ iterations >= VAULT_KDF_ITER_LOW /\ iterations <= VAULT_KDF_ITER_HIGH
    /\ parallel >= VAULT_KDF_PARALLEL_LOW /\ parallel <= VAULT_KDF_PARALLEL_HIGH

\* outcome of a call that derives a key: the passphrase given and the
\* crypto_pwhash calls that failed
KdfRes(op, rc, pass, oom) == [Res(op, rc) EXCEPT !.pass = pass] @@ [oom |-> oom]

\* the KDF parameters a write call on an open handle uses: those of the
\* handle, the statics when the handle holds none
HandleKdf ==
    IF kdf_handle.kdf_mem = 0 \/ kdf_handle.kdf_iter = 0
    THEN g_kdf
    ELSE [mem |-> kdf_handle.kdf_mem, iter |-> kdf_handle.kdf_iter,
          parallel |-> kdf_handle.kdf_parallel]

\* JNI initialisation with the RAM of the device
SetKdfProfile(total_ram_mb) ==
    /\ g_kdf' = vault_set_kdf_profile_by_ram(total_ram_mb)
    /\ res' = Res("set_kdf_profile", "OK")
    /\ UNCHANGED <<disk, g_vault, live, curPass, faults, ops, nfiles, rot, oldIdx,
                   tampered, stream_vars, kdf_hdr, kdf_handle>>

\* vault_create as far as key derivation goes: the KEK comes from
\* vault_kdf_derive, the parameters of slot 0 from vault_get_kdf_params
\* called after it; io: writing the container fails
KdfCreate(pass, salt, oom, io) ==
    LET k == vault_kdf_derive(g_kdf, pass, salt, oom)
        rc == IF PassLen(pass) < VAULT_MIN_PASSPHRASE_LEN THEN "PASSPHRASE_TOO_SHORT"
              ELSE IF kdf_hdr.exists THEN "ALREADY_EXISTS"
              ELSE IF k.rc # "OK" THEN k.rc
              ELSE IF io THEN "IO"
              ELSE "OK"
    IN  /\ res' = KdfRes("create", rc, pass, oom)
        /\ g_kdf' = IF rc \in {"PASSPHRASE_TOO_SHORT", "ALREADY_EXISTS"} THEN g_kdf
                    ELSE k.profile
        /\ kdf_hdr' = IF rc # "OK" THEN kdf_hdr
                      ELSE [exists |-> TRUE, salt |-> salt,
                            kdf_mem |-> k.profile.mem, kdf_iter |-> k.profile.iter,
                            kdf_parallel |-> k.profile.parallel,
                            wrapped_mk |-> WrapMk(k.key, NewMasterKey, NewVaultId)]
        /\ UNCHANGED <<disk, g_vault, live, curPass, faults, ops, nfiles, rot, oldIdx,
                       tampered, stream_vars, kdf_handle>>

\* vault_open as far as key derivation goes: the parameters of the header
\* are validated and handed to vault_kdf_derive_with_params
KdfOpen(pass, oom) ==
    LET h == kdf_hdr
        k == vault_kdf_derive_with_params(pass, h.salt, h.kdf_mem, h.kdf_iter, oom)
        rc == IF ~h.exists THEN "IO"
              ELSE IF ~validate_kdf_params(h.kdf_mem, h.kdf_iter, h.kdf_parallel)
              THEN "CORRUPTED"
              ELSE IF k.rc # "OK" THEN k.rc
              ELSE IF ~UnwrapMkOk(h.wrapped_mk, k.key, NewVaultId) THEN "AUTH_FAIL"
              ELSE "OK"
    IN  /\ res' = KdfRes("open", rc, pass, IF oom THEN 1 ELSE 0)
        /\ kdf_handle' = IF rc # "OK" THEN KdfClosed
                         ELSE [is_open |-> TRUE, salt |-> h.salt,
                               kdf_mem |-> h.kdf_mem, kdf_iter |-> h.kdf_iter,
                               kdf_parallel |-> h.kdf_parallel,
                               wrapped_mk |-> h.wrapped_mk]
        /\ UNCHANGED <<disk, g_vault, live, curPass, faults, ops, nfiles, rot, oldIdx,
                       tampered, stream_vars, g_kdf, kdf_hdr>>

\* vault_close zeroes the KDF fields of the handle
KdfClose ==
    /\ kdf_handle.is_open
    /\ kdf_handle' = KdfClosed
    /\ res' = Res("close", "OK")
    /\ UNCHANGED <<disk, g_vault, live, curPass, faults, ops, nfiles, rot, oldIdx,
                   tampered, stream_vars, g_kdf, kdf_hdr>>

\* vault_change_password as far as key derivation goes: old and new KEK come
\* from vault_kdf_derive_with_params under the parameters of the handle, which
\* go into the new slot; oom 1: the first derivation fails, 2: the second
KdfChangePassword(old_pass, new_pass, new_salt, oom, io) ==
    LET p == HandleKdf
        old == vault_kdf_derive_with_params(old_pass, kdf_handle.salt, p.mem, p.iter,
                                            oom = 1)
        new == vault_kdf_derive_with_params(new_pass, new_salt, p.mem, p.iter, oom = 2)
        new_wrapped_mk == WrapMk(new.key, NewMasterKey, NewVaultId)
        rc == IF PassLen(old_pass) < VAULT_MIN_PASSPHRASE_LEN
                 \/ PassLen(new_pass) < VAULT_MIN_PASSPHRASE_LEN
              THEN "PASSPHRASE_TOO_SHORT"
              ELSE IF ~kdf_handle.is_open THEN "NOT_OPEN"
              ELSE IF old.rc # "OK" THEN old.rc
              ELSE IF ~UnwrapMkOk(kdf_handle.wrapped_mk, old.key, NewVaultId)
              THEN "AUTH_FAIL"
              ELSE IF new.rc # "OK" THEN new.rc
              ELSE IF io THEN "IO"
              ELSE "OK"
    IN  /\ res' = KdfRes("change_password", rc, new_pass, oom)
        /\ kdf_hdr' = IF rc # "OK" THEN kdf_hdr
                      ELSE [kdf_hdr EXCEPT !.salt = new_salt,
                                           !.kdf_mem = p.mem,
                                           !.kdf_iter = p.iter,
                                           !.kdf_parallel = p.parallel,
                                           !.wrapped_mk = new_wrapped_mk]
        /\ kdf_handle' = IF rc # "OK" THEN kdf_handle
                         ELSE [kdf_handle EXCEPT !.salt = new_salt,
                                                 !.kdf_mem = p.mem,
                                                 !.kdf_iter = p.iter,
                                                 !.kdf_parallel = p.parallel,
                                                 !.wrapped_mk = new_wrapped_mk]
        /\ UNCHANGED <<disk, g_vault, live, curPass, faults, ops, nfiles, rot, oldIdx,
                       tampered, stream_vars, g_kdf>>

\* vault_save_container as far as key derivation goes: the header it writes
\* takes salt, KDF fields and wrapped key from the handle
KdfSave ==
    LET p == HandleKdf
    IN  /\ kdf_handle.is_open
        /\ kdf_hdr.exists
        /\ res' = Res("save", "OK")
        /\ kdf_handle' = [kdf_handle EXCEPT !.kdf_mem = p.mem, !.kdf_iter = p.iter,
                                            !.kdf_parallel = p.parallel]
        /\ kdf_hdr' = [kdf_hdr EXCEPT !.salt = kdf_handle.salt,
                                      !.kdf_mem = p.mem,
                                      !.kdf_iter = p.iter,
                                      !.kdf_parallel = p.parallel,
                                      !.wrapped_mk = kdf_handle.wrapped_mk]
        /\ UNCHANGED <<disk, g_vault, live, curPass, faults, ops, nfiles, rot, oldIdx,
                       tampered, stream_vars, g_kdf>>

\* RAM sizes that select the three profiles, in MB
RamSizes == {1024, 2048, 4096}

\* salts vault_random_bytes may hand out
KdfSalts == {1, 2}

NextKdf ==
    \/ \E ram \in RamSizes : SetKdfProfile(ram)
    \/ \E p \in Passphrases, s \in KdfSalts, oom \in 0..2, io \in BOOLEAN :
          KdfCreate(p, s, oom, io)
    \/ \E p \in Passphrases, oom \in BOOLEAN : KdfOpen(p, oom)
    \/ KdfClose
    \/ \E o \in Passphrases, n \in Passphrases, s \in KdfSalts, oom \in 0..2,
          io \in BOOLEAN : KdfChangePassword(o, n, s, oom, io)
    \/ KdfSave
    \/ Restart

SpecKdf == Init /\ [][NextKdf]_vars

----------------------------------------------------------------------------
(* Process death inside a write call *)

\* the file while the three in-place writes of an index section proceed:
\* nonce written, ciphertext partly written, all written
IndexWriteStates(d, ix) ==
    {[d EXCEPT !.idx.nonce = ix.nonce],
     [d EXCEPT !.idx = [ix EXCEPT !.ct.intact = FALSE]],
     [d EXCEPT !.idx = ix]}

\* whether vault_save_index_only takes its in-place path
SaveIsFast(g, d) ==
    /\ CurrentCapacity(g, d) >= calculate_index_plaintext_size(g.entries)
    /\ d.idx.ctlen = CurrentCapacity(g, d) + VAULT_TAG_LEN

\* files a process dying inside vault_save_index_only can leave behind
save_index_only_states(g, d) ==
    LET r == vault_save_index_only(g, d, "none")
    IN  IF r.rc # "OK" THEN {d}
        ELSE IF SaveIsFast(g, d) THEN {d} \cup IndexWriteStates(d, r.d.idx)
        ELSE {d, r.d}

\* whether vault_append_entry takes its in-place path
AppendIsFast(g, d, new_entry, payload) ==
    LET required_pt_len ==
            calculate_index_plaintext_size(Append(g.entries, new_entry))
    IN  /\ CurrentCapacity(g, d) >= required_pt_len
        /\ d.idx.ctlen = CurrentCapacity(g, d) + VAULT_TAG_LEN

\* vault_append_entry with the index section overwritten before the payload is
\* written
append_entry_states_index_first(g, d, new_entry, payload) ==
    LET r == vault_append_entry(g, d, new_entry, payload, "none")
    IN  IF r.rc # "OK" THEN {d}
        ELSE IF AppendIsFast(g, d, new_entry, payload)
             THEN IndexWriteStates(d, r.d.idx) \cup {d, r.d}
        ELSE {d, r.d}

\* files a process dying inside vault_append_entry can leave behind
append_entry_states(g, d, new_entry, payload) ==
    LET r == vault_append_entry(g, d, new_entry, payload, "none")
        at == FileSize(d) - VAULT_HASH_LEN
        dPayload == OverwriteFrom(d, at, payload)
        dHash == OverwriteFrom(d, at, payload \o <<Seg(VAULT_HASH_LEN, HashZero)>>)
    IN  IF r.rc # "OK" THEN {d}
        ELSE IF AppendIsFast(g, d, new_entry, payload)
             THEN {d, dPayload, dHash} \cup IndexWriteStates(dHash, r.d.idx)
        ELSE {d, r.d}

\* files a process dying inside vault_change_password can leave behind
change_password_states(g, d, old_pass, new_pass, new_salt) ==
    LET r == vault_change_password(g, d, old_pass, new_pass, new_salt, "none")
        torn(k) == [r.d.hdr.slots[k] EXCEPT !.crc_ok = FALSE]
    IN  IF r.rc # "OK" \/ ~g.header_is_journal THEN {d, r.d}
        ELSE IF U32Inc(g.header_seq) = U32Zero
        THEN {d, r.d,
              [d EXCEPT !.hdr.slots[1] = torn(1)],
              [d EXCEPT !.hdr.slots[1] = r.d.hdr.slots[1]],
              [d EXCEPT !.hdr.slots[1] = r.d.hdr.slots[1], !.hdr.slots[2] = torn(2)]}
        ELSE {d, r.d,
              [d EXCEPT !.hdr.slots[RotationSlot(U32Inc(g.header_seq)) + 1] =
                            torn(RotationSlot(U32Inc(g.header_seq)) + 1)]}

\* the process dies: the handle is gone, the file stays as it was left
Died(op, d, dAfter, pass) ==
    /\ Untouched
    /\ g_vault.is_open
    /\ faults < MaxFaults
    /\ ops < MaxOps
    /\ faults' = faults + 1
    /\ ops' = ops + 1
    /\ disk' = d
    /\ g_vault' = ClosedHandle
    /\ res' = [Res(op, "DIED") EXCEPT !.before = OpenView(disk, curPass),
                                      !.after = OpenView(dAfter, curPass),
                                      !.pass = pass]
    /\ UNCHANGED <<live, curPass, nfiles, rot, oldIdx, tampered, stream_vars, kdf_vars>>

CrashDelete(fid) ==
    LET i == FindEntry(g_vault.entries, fid)
        g == [g_vault EXCEPT !.entries = RemoveAt(g_vault.entries, i)]
    IN  /\ i # 0
        /\ \E d \in save_index_only_states(g, disk) :
              Died("crash_save", d, vault_save_index_only(g, disk, "none").d, "")

CrashRename(fid, name) ==
    LET i == FindEntry(g_vault.entries, fid)
        g == [g_vault EXCEPT !.entries[i].name = name]
    IN  /\ i # 0
        /\ vault_rename_file(g_vault, disk, fid, name, "none").rc = "OK"
        /\ \E d \in save_index_only_states(g, disk) :
              Died("crash_save", d, vault_save_index_only(g, disk, "none").d, "")

CrashImport(in) ==
    LET fid == nfiles + 1
        built == IF in[1] = VAULT_FILE_TYPE_VIDEO
                 THEN build_video_entry(g_vault, fid, in[3], MimeOf(in[1]), in[2])
                 ELSE build_text_image_entry(g_vault, fid, in[1], in[3], MimeOf(in[1]),
                                             in[2])
    IN  /\ nfiles < MaxFiles
        /\ \E d \in append_entry_states(g_vault, disk, built.entry, built.payload) :
              Died("crash_append", d,
                   vault_append_entry(g_vault, disk, built.entry, built.payload,
                                      "none").d, "")

CrashChangePassword(new_pass) ==
    /\ rot < MaxRot
    /\ vault_change_password(g_vault, disk, curPass, new_pass, rot + 1, "none").rc = "OK"
    /\ \E d \in change_password_states(g_vault, disk, curPass, new_pass, rot + 1) :
          /\ d # vault_change_password(g_vault, disk, curPass, new_pass, rot + 1,
                                       "none").d
          /\ Died("crash_rotate", d, d, new_pass)

NextCrash ==
    \/ Next
    \/ \E fid \in 1..MaxFiles : CrashDelete(fid)
    \/ \E fid \in 1..MaxFiles, n \in RenameNames : CrashRename(fid, n)
    \/ \E in \in ImportInputs : CrashImport(in)
    \/ \E p \in Passphrases : CrashChangePassword(p)

SpecCrash == Init /\ [][NextCrash]_vars

\* imports alone, each of which may fail or die part-way
NextAppend ==
    \/ \E p \in Passphrases : Create(p)
    \/ \E p \in Passphrases : Open(p)
    \/ \E in \in ImportInputs, f \in AppendFaults : Import(in, f)
    \/ \E in \in ImportInputs : CrashImport(in)

SpecAppend == Init /\ [][NextAppend]_vars

\* fault-free imports, then renames and deletes that may fail
NextSave ==
    \/ \E p \in Passphrases : Create(p)
    \/ \E p \in Passphrases : Open(p)
    \/ \E in \in ImportInputs : Import(in, "none")
    \/ \E fid \in 1..MaxFiles, n \in RenameNames, f \in SaveFaults : Rename(fid, n, f)
    \/ \E fid \in 1..MaxFiles, f \in SaveFaults : Delete(fid, f)

SpecSave == Init /\ [][NextSave]_vars

\* fault-free imports and the two reads
NextRead ==
    \/ \E p \in Passphrases : Create(p)
    \/ \E p \in Passphrases : Open(p)
    \/ \E in \in ImportInputs : Import(in, "none")
    \/ \E fid \in 1..MaxFiles : ReadFile(fid)
    \/ \E fid \in 1..MaxFiles, c \in 0..MaxChunkIdx : ReadChunk(fid, c)

SpecRead == Init /\ [][NextRead]_vars

----------------------------------------------------------------------------
(* The file altered behind the engine's back *)

TamperKinds == {"slot", "wrapped_mk", "index", "ct_len", "replay", "blob"}

\* one alteration of the file at rest
Altered(d, kind, i) ==
    LET sel == journal_select_slot(d.hdr)
    IN  CASE kind = "slot" ->
               IF d.hdr.magic = "VAULTJ1"
               THEN [d EXCEPT !.hdr.slots[sel].crc_ok = FALSE]
               ELSE [d EXCEPT !.hdr.leg.crc_ok = FALSE]
          [] kind = "wrapped_mk" ->
               IF d.hdr.magic = "VAULTJ1"
               THEN [d EXCEPT !.hdr.slots[sel].crc_ok = FALSE,
                              !.hdr.slots[sel].wmk.intact = FALSE]
               ELSE [d EXCEPT !.hdr.leg.wmk.intact = FALSE]
          [] kind = "index" -> [d EXCEPT !.idx.ct.intact = FALSE]
          [] kind = "ct_len" -> [d EXCEPT !.idx.ctlen = @ + SumLens(d.data) + 1]
          [] kind = "replay" -> [d EXCEPT !.idx = oldIdx]
          [] kind = "blob" -> [d EXCEPT !.data[i].c = Junk]

\* segment i holds ciphertext of an entry the committed index lists
LiveSegment(d, i) ==
    LET o == vault_open(ClosedHandle, d, curPass)
    IN  /\ o.rc = "OK"
        /\ d.data[i].c.kind = "ct"
        /\ \E k \in 1..Len(o.g.entries) : o.g.entries[k].file_id = d.data[i].c.fid

Tamper(kind, i) ==
    /\ Untouched
    /\ faults = 0
    /\ disk.exists
    /\ ~g_vault.is_open
    /\ disk.hdr.magic = "VAULTJ1" => journal_select_slot(disk.hdr) # 0
    /\ kind = "replay" =>
          /\ oldIdx # disk.idx
          /\ oldIdx.ctlen = disk.idx.ctlen
          /\ oldIdx.ct.key = disk.idx.ct.key
    /\ IF kind = "blob" THEN i \in 1..Len(disk.data) /\ LiveSegment(disk, i) ELSE i = 1
    /\ disk' = Altered(disk, kind, i)
    /\ tampered' = kind
    /\ res' = [Res("tamper", "OK") EXCEPT !.before = OpenView(disk, curPass)]
    /\ UNCHANGED <<g_vault, live, curPass, faults, ops, nfiles, rot, oldIdx, stream_vars, kdf_vars>>

MaxSegs == 4

NextTamper ==
    \/ Next
    \/ \E k \in TamperKinds, i \in 1..MaxSegs : Tamper(k, i)

SpecTamper == Init /\ [][NextTamper]_vars

----------------------------------------------------------------------------
(* Slot selection over arbitrary journal headers *)

SelectSeqs == {U32Zero, U32One, U32Two, U32(UINT16_MOD - 1, UINT16_MOD - 1)}

\* a slot as any bytes on disk may present it
SlotChoices ==
    {[journal_fill_slot(U32One, NewVaultId, 0,
                        WrapMk(Kek(FirstPass, 0), NewMasterKey, NewVaultId))
        EXCEPT !.seq = q, !.mklen = m, !.crc_ok = c, !.readable = r] :
        q \in SelectSeqs, m \in {WRAPPED_MK_SIZE, 0}, c \in BOOLEAN, r \in BOOLEAN}

InitSelect ==
    /\ \E s0 \in SlotChoices, s1 \in SlotChoices :
          disk = [HighSeqDisk EXCEPT !.hdr = JournalHeader(s0, s1)]
    /\ g_vault = ClosedHandle
    /\ res = Res("init", "OK")
    /\ live = <<Expected(1, VAULT_FILE_TYPE_TXT, "a.txt", "hello")>>
    /\ curPass = FirstPass
    /\ faults = 0
    /\ ops = 0
    /\ nfiles = 1
    /\ rot = 0
    /\ oldIdx = disk.idx
    /\ tampered = "no"
    /\ StreamInit
    /\ KdfInit

NextSelect ==
    \/ \E p \in Passphrases : Open(p)
    \/ Close

SpecSelect == InitSelect /\ [][NextSelect]_vars

----------------------------------------------------------------------------
(* Properties *)

WriteOps == {"import", "rename", "delete", "compact", "change_password"}

\* C1: after successful import/rename/delete/compact/change_password calls,
\* closing and reopening with the current passphrase shows exactly the
\* surviving entries (id, name, size, shape) in insertion order
C1_ReopenShowsSurvivors ==
    (faults = 0 /\ disk.exists /\ curPass # "") =>
        OpenView(disk, curPass) = [rc |-> "OK", list |-> ExpectedListing(live)]

\* C2: a write call that returns an error leaves the handle and the
\* container file exactly as they were before the call
C2_ErrorLeavesStateUnchanged ==
    [][(res'.op \in WriteOps /\ res'.rc # "OK") => (g_vault' = g_vault /\ disk' = disk)]_vars

\* C3: after the process dies inside append_entry or save_index_only, opening
\* with the correct passphrase succeeds and shows the list from before the
\* call or the list from after it
C3_DeathLeavesBeforeOrAfter ==
    res.op \in {"crash_save", "crash_append"} =>
        /\ OpenView(disk, curPass).rc = "OK"
        /\ OpenView(disk, curPass) \in {res.before, res.after}

\* the bytes an entry's offsets point at are that entry's own ciphertext
OffsetsOwn(d, e) ==
    IF e.chunk_count > 0
    THEN \A c \in 1..Len(e.chunks) :
            LET x == ReadAt(d, e.chunks[c].offset, e.chunks[c].length)
            IN  x.kind = "ct" /\ x.fid = e.file_id /\ x.chunk = c - 1
    ELSE LET x == ReadAt(d, e.data_offset, e.data_length)
         IN  x.kind = "ct" /\ x.fid = e.file_id /\ x.chunk = 0

\* C4: after every write call that returns OK, each in-memory entry's
\* offsets point at that entry's own ciphertext in the file
C4_OffsetsMatchDisk ==
    (res.op \in WriteOps /\ res.rc = "OK" /\ g_vault.is_open) =>
        \A i \in 1..Len(g_vault.entries) : OffsetsOwn(disk, g_vault.entries[i])

\* C5: a change_password on a journal vault leaves the slot that was active
\* before the call as it was
C5_ActiveSlotUntouched ==
    [][(res'.op = "change_password" /\ res'.rc = "OK" /\ g_vault.header_is_journal
        /\ journal_select_slot(disk.hdr) # 0)
       => disk'.hdr.slots[journal_select_slot(disk.hdr)]
            = disk.hdr.slots[journal_select_slot(disk.hdr)]]_vars

\* C6: after change_password(old, new) with new # old returns OK, open(new)
\* succeeds, open(old) returns auth-fail and the entry list is unchanged
C6_RotationSwitchesPassphrase ==
    [][\A o \in Passphrases, n \in Passphrases, f \in ChangeFaults :
          (o # n /\ ChangePassword(o, n, f) /\ res'.rc = "OK") =>
              /\ OpenView(disk', n).rc = "OK"
              /\ OpenView(disk', o).rc = "AUTH_FAIL"
              /\ OpenView(disk', n).list = Listing(g_vault.entries)
              /\ Listing(g_vault'.entries) = Listing(g_vault.entries)]_vars

\* what reading every chunk of a chunked entry, or the blob of another, gives
ReadsBack(g, d, lv) ==
    IF lv.shape = "blob"
    THEN vault_read_file(g, d, lv.file_id) = [rc |-> "OK", pt |-> <<lv.data, "all">>]
    ELSE \A c \in 0..(ChunkCount(lv.size) - 1) :
            vault_read_chunk(g, d, lv.file_id, c) = [rc |-> "OK", pt |-> <<lv.data, c>>]

\* C7: every imported entry reads back as the imported bytes, also after
\* later appends, index rewrites and compaction
C7_RoundTrip ==
    g_vault.is_open => \A i \in 1..Len(live) : ReadsBack(g_vault, disk, live[i])

\* C8: after a modification of the file, open or the first read of the
\* modified entry returns auth-fail or corrupted, and no open succeeds with a
\* list other than the committed one
C8_TamperDetected ==
    res.op = "tamper" =>
        LET o == vault_open(ClosedHandle, disk, curPass)
        IN  /\ \/ o.rc \in {"AUTH_FAIL", "CORRUPTED"}
               \/ /\ o.rc = "OK"
                  /\ \E i \in 1..Len(o.g.entries) :
                        \/ vault_read_file(o.g, disk, o.g.entries[i].file_id).rc
                              \in {"AUTH_FAIL", "CORRUPTED"}
                        \/ \E c \in 0..MaxChunkIdx :
                              vault_read_chunk(o.g, disk, o.g.entries[i].file_id, c).rc
                                 \in {"AUTH_FAIL", "CORRUPTED"}
            /\ o.rc = "OK" => Listing(o.g.entries) = res.before.list

\* a slot that is readable, has seq # 0, wrapped_mk_len = 72 and a matching CRC
Qualifies(sl) ==
    sl.readable /\ sl.seq # U32Zero /\ sl.mklen = 72 /\ sl.crc_ok

\* C9: the slot open uses is a qualifying slot of greatest seq; with none
\* qualifying open returns corrupted
C9_ActiveSlotIsGreatestValid ==
    LET Q == {i \in 1..2 : Qualifies(disk.hdr.slots[i])}
        sel == journal_select_slot(disk.hdr)
    IN  /\ Q = {} => sel = 0 /\ (res.op = "open" => res.rc = "CORRUPTED")
        /\ Q # {} =>
              /\ sel \in Q
              /\ \A j \in Q : ~U32Gt(disk.hdr.slots[j].seq, disk.hdr.slots[sel].seq)
              /\ res.op = "open" => res.rc # "CORRUPTED"
              /\ (res.op = "open" /\ res.rc = "OK") =>
                    g_vault.header_seq = disk.hdr.slots[sel].seq

C9_Witness ==
    /\ res.op = "open" /\ res.rc = "OK"
    /\ ~Qualifies(disk.hdr.slots[1])
    /\ Qualifies(disk.hdr.slots[2])
    /\ g_vault.header_seq = disk.hdr.slots[2].seq

\* the slot carries the credentials of the handle
CarriesHandleCreds(sl, g) ==
    sl.salt = g.salt /\ sl.wmk = g.wrapped_mk /\ sl.mklen = WRAPPED_MK_SIZE /\ sl.crc_ok

\* C10: a successful rotation on a journal vault writes seq + 1 into slot
\* (seq + 1) mod 2 and records it; when seq + 1 wraps to 0 both slots are
\* rewritten as seq 1 and seq 2 with the new credentials and seq 2 is
\* recorded; no slot holding a wrapped key has seq 0; the handle's seq never
\* decreases except at that reset
C10_SequenceAdvances ==
    [][/\ (res'.op = "change_password" /\ res'.rc = "OK" /\ g_vault.header_is_journal) =>
            LET new_seq == U32Inc(g_vault.header_seq)
            IN  IF new_seq = U32Zero
                THEN /\ disk'.hdr.slots[1].seq = U32One
                     /\ disk'.hdr.slots[2].seq = U32Two
                     /\ CarriesHandleCreds(disk'.hdr.slots[1], g_vault')
                     /\ CarriesHandleCreds(disk'.hdr.slots[2], g_vault')
                     /\ UnwrapMkOk(g_vault'.wrapped_mk, Kek(curPass', g_vault'.salt),
                                   g_vault'.vault_id)
                     /\ g_vault'.header_seq = U32Two
                ELSE /\ disk'.hdr.slots[U32Mod(new_seq, 2) + 1].seq = new_seq
                     /\ CarriesHandleCreds(disk'.hdr.slots[U32Mod(new_seq, 2) + 1],
                                           g_vault')
                     /\ g_vault'.header_seq = new_seq
                     /\ U32Gt(g_vault'.header_seq, g_vault.header_seq)
       /\ (disk'.exists /\ disk'.hdr.magic = "VAULTJ1") =>
             \A i \in 1..2 : disk'.hdr.slots[i].mklen = WRAPPED_MK_SIZE =>
                                disk'.hdr.slots[i].seq # U32Zero
       /\ (g_vault.is_open /\ g_vault'.is_open /\ res'.op \in WriteOps
           /\ U32Gt(g_vault.header_seq, g_vault'.header_seq)) =>
             (U32Inc(g_vault.header_seq) = U32Zero /\ res'.op = "change_password"
              /\ res'.rc = "OK")]_vars

C10_Witness ==
    /\ res.op = "change_password" /\ res.rc = "OK"
    /\ g_vault.header_seq = U32Two
    /\ disk.hdr.slots[1].seq = U32One
    /\ disk.hdr.slots[2].seq = U32Two
    /\ rot = 2

\* C11: the header flavor, on disk and in the handle, changes only from
\* legacy to journal and only in a successful change_password; every other
\* write keeps the flavor the vault has
C11_FlavorOnlyMigrates ==
    [][/\ (disk.exists /\ disk'.exists /\ disk'.hdr.magic # disk.hdr.magic) =>
             /\ res'.op = "change_password" /\ res'.rc = "OK"
             /\ disk.hdr.magic = "VAULTv1" /\ disk'.hdr.magic = "VAULTJ1"
       /\ (g_vault.is_open /\ g_vault'.is_open
           /\ g_vault'.header_is_journal # g_vault.header_is_journal) =>
             /\ res'.op = "change_password" /\ res'.rc = "OK"
             /\ ~g_vault.header_is_journal /\ g_vault'.header_is_journal
       /\ (g_vault'.is_open /\ res'.op \in WriteOps /\ res'.rc = "OK") =>
             (g_vault'.header_is_journal <=> disk'.hdr.magic = "VAULTJ1")]_vars

\* a legacy vault has been rewritten by a write other than a rotation and is
\* still legacy
C11_Witness ==
    /\ res.op \in {"rename", "import", "compact"} /\ res.rc = "OK"
    /\ disk.hdr.magic = "VAULTv1"
    /\ disk.idx # oldIdx
    /\ ~g_vault.header_is_journal

\* what reading an entry gives: its blob, or its chunks in order
ReadAll(g, d, e) ==
    IF e.chunk_count > 0
    THEN [c \in 1..e.chunk_count |-> vault_read_chunk(g, d, e.file_id, c - 1)]
    ELSE <<vault_read_file(g, d, e.file_id)>>

\* C12: change_password on a legacy vault writes a journal header (slot 0
\* seq 1, slot 1 empty), shifts every entry offset by the growth of header
\* plus index section, copies the data region unchanged, and the vault then
\* reopens with the new passphrase with every entry readable as before
C12_MigrationKeepsVault ==
    [][(res'.op = "change_password" /\ res'.rc = "OK" /\ ~g_vault.header_is_journal) =>
          LET delta == DataStart(disk') - DataStart(disk)
              o == vault_open(ClosedHandle, disk', curPass')
          IN  /\ disk'.hdr.magic = "VAULTJ1"
              /\ disk'.hdr.slots[1].seq = U32One
              /\ disk'.hdr.slots[2] = EmptySlot
              /\ g_vault'.entries = ShiftEntries(g_vault.entries, delta)
              /\ DataRange(disk', DataStart(disk'), ContentSize(disk'))
                    = DataRange(disk, DataStart(disk), ContentSize(disk))
              /\ o.rc = "OK"
              /\ \A i \in 1..Len(g_vault.entries) :
                    LET e == g_vault.entries[i]
                        r == ReadAll(o.g, disk', e)
                    IN  /\ \A k \in 1..Len(r) : r[k].rc = "OK"
                        /\ r = ReadAll(g_vault, disk, e)]_vars

\* C13: when the index of the file decrypts but its plaintext fails
\* deserialisation, vault_open returns corrupted and leaves the handle
\* closed; it does not return OK with an empty or partial list
C13_BadIndexIsCorrupted ==
    (disk.exists /\ curPass # "" /\ disk.idx.ct.intact
     /\ disk.idx.ct.nonce = disk.idx.nonce
     /\ deserialize_index(disk.idx.ct.pt).rc # "OK") =>
        LET o == vault_open(ClosedHandle, disk, curPass)
        IN  o.rc = "CORRUPTED" /\ ~o.g.is_open

\* C14: no write shrinks the index capacity, on disk or in the handle, and a
\* write whose serialized index fits the capacity the file has leaves the
\* byte length of the index section unchanged
C14_CapacityMonotone ==
    [][(res'.op \in WriteOps /\ g_vault.is_open /\ g_vault'.is_open
        /\ disk.exists /\ disk'.exists) =>
          /\ disk'.idx.ctlen >= disk.idx.ctlen
          /\ g_vault'.index_capacity >= g_vault.index_capacity
          /\ (res'.rc = "OK"
              /\ calculate_index_plaintext_size(g_vault'.entries)
                    <= disk.idx.ctlen - VAULT_TAG_LEN) =>
                disk'.idx.ctlen = disk.idx.ctlen]_vars

\* C15: after every successful open or write, the handle's total_size is the
\* actual size of the container file: header, index section, data region and
\* the 32-byte trailing hash
C15_TotalSizeIsFileSize ==
    [][(res'.op \in WriteOps \cup {"open"} /\ res'.rc = "OK"
        /\ g_vault'.is_open /\ disk'.exists) =>
          g_vault'.total_size = FileSize(disk')]_vars

\* C16: the free_space that get_stats reports is total_size minus the larger
\* of the end of the last live blob and the end of header and index, and a
\* successful write keeps it so: it grows when the entry holding the last
\* blob is deleted.  Stated for the writes that leave total_size the size of
\* the file.
C16_FreeSpaceIsTail ==
    [][(res'.op \in WriteOps /\ res'.rc = "OK" /\ g_vault.is_open /\ g_vault'.is_open
        /\ g_vault.total_size = FileSize(disk)
        /\ g_vault'.total_size = FileSize(disk')
        /\ vault_get_stats(g_vault).free_space
              = g_vault.total_size
                - Max(compute_used_space(g_vault.entries),
                      g_vault.header_size + VAULT_NONCE_LEN + 8 + disk.idx.ctlen)) =>
          vault_get_stats(g_vault').free_space
              = vault_get_stats(g_vault').total_size
                - Max(compute_used_space(g_vault'.entries),
                      g_vault'.header_size + VAULT_NONCE_LEN + 8 + disk'.idx.ctlen)]_vars

\* C17: compact rebuilds the container exactly when the bytes of the data
\* region that belong to no live entry are at least 25% of total_size, and is
\* a no-op otherwise; after a rebuild the file holds the live payloads packed
\* after header and index, total_size has shrunk by the orphaned bytes and
\* every surviving entry reads back as before
C17_CompactWhenQuarterOrphaned ==
    [][(res'.op \in {"compact", "compact_skipped"} /\ res'.rc = "OK"
        /\ g_vault.is_open) =>
          LET es == g_vault.entries
              pays == [i \in 1..Len(es) |-> LoadPayload(disk, es[i])]
              orphan == ContentSize(disk) - DataStart(disk) - SumLens(Flatten(pays))
          IN  /\ (res'.op = "compact") <=> (orphan * 100 >= g_vault.total_size * 25)
              /\ (res'.op = "compact_skipped") => (disk' = disk /\ g_vault' = g_vault)
              /\ (res'.op = "compact") =>
                    /\ disk'.data = Flatten(pays) \o <<Seg(VAULT_HASH_LEN, HashSha)>>
                    /\ g_vault'.entries = PlaceAll(es, pays, DataStart(disk'))
                    /\ g_vault'.total_size = g_vault.total_size - orphan
                    /\ \A i \in 1..Len(es) :
                          LET r == ReadAll(g_vault', disk', es[i])
                          IN  /\ \A k \in 1..Len(r) : r[k].rc = "OK"
                              /\ r = ReadAll(g_vault, disk, es[i])]_vars

\* C18: every operation other than init, create and open that is called while
\* no vault is open returns not-open and changes neither the handle nor the
\* file; change_password does so whatever the lengths of its passphrases
C18_ClosedCallsReturnNotOpen ==
    [][(~g_vault.is_open /\ res'.op \in ClosedOps) =>
          (res'.rc = "NOT_OPEN" /\ g_vault' = g_vault /\ disk' = disk)]_vars

C20_ReservedNamesGuarded ==
    [][g_vault'.is_open =>
          /\ \A i \in 1..Len(g_vault'.entries) :
                HasDunderPrefix(g_vault'.entries[i].name)
                    => is_allowed_system_name(g_vault'.entries[i].name)
          /\ \A i \in 1..Len(g_vault.entries), j \in 1..Len(g_vault'.entries) :
                g_vault.entries[i].file_id = g_vault'.entries[j].file_id
                    => (HasDunderPrefix(g_vault.entries[i].name)
                          <=> HasDunderPrefix(g_vault'.entries[j].name))]_vars

\* C21: every entry the engine accepts into the index has a name of at most
\* 4096 bytes and a MIME string of at most 512 bytes, so every index a
\* successful write stores is accepted by deserialize_index on the next open
C21_AcceptedEntriesFit ==
    [][(res'.op \in WriteOps /\ res'.rc = "OK" /\ g_vault'.is_open /\ disk'.exists) =>
          /\ \A i \in 1..Len(g_vault'.entries) :
                /\ NameLen(g_vault'.entries[i].name) <= MaxNameLen
                /\ Len(g_vault'.entries[i].mime) <= MaxMimeLen
          /\ deserialize_index(disk'.idx.ct.pt).rc = "OK"]_vars

\* C22: when the chunk files 0..k-1 of an import have been written and the
\* import is not loaded in the process (as after a restart), streaming_start
\* with its source hash returns its import_id and resume_from = k, for every k
C22_ResumeFromWrittenChunks ==
    [][(/\ res'.op = "streaming_start" /\ res'.rc = "OK"
        /\ res'.import_id \in 1..Len(pending)
        /\ pending[res'.import_id].exists
        /\ find_active_slot(g_active_imports, res'.import_id) = 0
        /\ \E k \in 0..Cardinality(ChunkIndexes) :
              DOMAIN pending[res'.import_id].chunks = 0..(k - 1))
          => res'.resume_from = Cardinality(DOMAIN pending[res'.import_id].chunks)]_vars

\* C23: streaming_finish succeeds only when completed_chunks = total_chunks;
\* it then appends exactly one entry, with chunk_count = total_chunks, whose
\* i-th chunk carries the nonce and the ciphertext staged in chunk file i, so
\* that reading chunk i gives the plaintext written for index i; when
\* completed_chunks # total_chunks it returns invalid-param and adds no entry
C23_FinishOnlyWhenComplete ==
    [][(/\ res'.op = "streaming_finish"
        /\ g_vault.is_open
        /\ find_active_slot(g_active_imports, res'.import_id) > 0
              \/ HasDir(pending, res'.import_id))
          => LET id == res'.import_id
                 slot == find_active_slot(g_active_imports, id)
                 state == IF slot > 0 THEN g_active_imports[slot] ELSE pending[id].state
                 n == state.total_chunks
                 es == g_vault'.entries
                 e == es[Len(es)]
             IN  /\ res'.rc = "OK" =>
                      /\ state.completed_chunks = n
                      /\ Len(es) = Len(g_vault.entries) + 1
                      /\ \A i \in 1..Len(g_vault.entries) :
                            es[i].file_id = g_vault.entries[i].file_id
                      /\ e.file_id = state.file_id
                      /\ e.chunk_count = n
                      /\ \A i \in 0..(n - 1) :
                            LET ch == e.chunks[i + 1]
                                c == ReadAt(disk', ch.offset, ch.length)
                            IN  /\ ch.nonce = pending[id].chunks[i].c.nonce
                                /\ c = pending[id].chunks[i].c
                                /\ DecryptOk(g_vault', e, c, i, ch.nonce)
                                /\ FindEntry(es, e.file_id) = Len(es) =>
                                      vault_read_chunk(g_vault', disk', e.file_id, i)
                                         = [rc |-> "OK", pt |-> pending[id].chunks[i].c.pt]
                 /\ state.completed_chunks # n =>
                      /\ res'.rc = "INVALID_PARAM"
                      /\ g_vault'.entries = g_vault.entries
                      /\ disk' = disk]_vars

\* a finished import of two chunks whose second chunk reads back
C23_Witness ==
    /\ res.op = "streaming_finish" /\ res.rc = "OK"
    /\ g_vault.is_open
    /\ g_vault.entries # <<>>
    /\ g_vault.entries[Len(g_vault.entries)].chunk_count = 2
    /\ vault_read_chunk(g_vault, disk, g_vault.entries[Len(g_vault.entries)].file_id, 1)
          = [rc |-> "OK", pt |-> <<"world", "all">>]

\* C24: finish is idempotent: under any interleaving of streaming_start,
\* streaming_finish and process restarts, also a death after the entry was
\* appended and before the staging directory was removed, one import
\* contributes at most one entry and the file_ids in the index are distinct
C24_FinishIdempotent ==
    g_vault.is_open =>
        \A i, j \in 1..Len(g_vault.entries) :
            g_vault.entries[i].file_id = g_vault.entries[j].file_id => i = j

\* C25: for every import that has a staging directory on disk, after
\* streaming_abort(import_id) returns, the directory and every file in it
\* are gone and the import is neither active in memory nor listed as pending,
\* whether or not the import was loaded in this process
C25_AbortRemovesStaging ==
    [][(/\ res'.op = "streaming_abort"
        /\ res'.import_id \in 1..Len(pending)
        /\ pending[res'.import_id].exists)
          => /\ ~pending'[res'.import_id].exists
             /\ pending'[res'.import_id].chunks = <<>>
             /\ find_active_slot(g_active_imports', res'.import_id) = 0]_vars

\* C27: streaming_start is idempotent: called again with the source hash of
\* a pending import it returns that import_id, creates no second staging
\* directory and leaves at most one active session for that import_id
C27_StartIdempotent ==
    [][(/\ res'.op = "streaming_start" /\ res'.rc = "OK"
        /\ res'.import_id \in 1..Len(pending)
        /\ pending[res'.import_id].exists)
          => /\ pending' = pending
             /\ Cardinality({s \in 1..MAX_ACTIVE_IMPORTS :
                               g_active_imports'[s].import_id = res'.import_id}) <= 1]_vars

\* C26: at most 4 import sessions are active in memory, and an import that
\* found no free slot still works: streaming_start persists its state,
\* streaming_write_chunk and streaming_finish load it from the staging
\* directory, and streaming_finish returns what it returns for an active
\* import, whose completed_chunks is the index of the chunk written last
\* plus one
C26_SlotlessImportWorks ==
    [][LET id == res'.import_id
           slotless == /\ find_active_slot(g_active_imports, id) = 0
                       /\ get_free_slot(g_active_imports) = 0
       IN  /\ Cardinality({s \in DOMAIN g_active_imports' :
                             g_active_imports'[s].import_id # 0}) <= 4
           /\ (res'.op = "streaming_start" /\ res'.rc = "OK"
               /\ get_free_slot(g_active_imports) = 0 /\ id = Len(pending) + 1)
                 => (HasDir(pending', id) /\ pending'[id].state.import_id = id)
           /\ (res'.op = "streaming_write_chunk" /\ HasDir(pending, id) /\ slotless
               /\ res'.resume_from < pending[id].state.total_chunks)
                 => (res'.rc = "OK" /\ res'.resume_from \in DOMAIN pending'[id].chunks)
           /\ (res'.op = "streaming_finish" /\ HasDir(pending, id) /\ slotless
               /\ res.op = "streaming_write_chunk" /\ res.rc = "OK"
               /\ res.import_id = id
               /\ res.resume_from + 1 # pending[id].state.total_chunks)
                 => res'.rc = "INVALID_PARAM"]_vars

\* C28: no write path commits without a successful fsync: a write call in
\* which the fsync of the temp file or of the container fails returns io,
\* and leaves the file and the handle as they were
C28_NoCommitWithoutFsync ==
    [][(res'.op \in WriteOps /\ faults' > faults /\ g_vault.is_open
        /\ res'.rc \in {"OK", "IO"})
          => (res'.rc = "IO" /\ disk' = disk /\ g_vault' = g_vault)]_vars

\* C29: the KDF parameters in the header are those the KEK that wraps the
\* master key was derived with, also after a create that fell back to LOW and
\* after change_password; and an open whose derivation does not fail for want
\* of memory answers OK exactly for the passphrase the key was wrapped under,
\* whatever the process-wide profile is, and leaves the header's parameters
\* in the handle
C29_StoredParamsAreUsed ==
    [][/\ kdf_hdr'.exists =>
            kdf_hdr'.wrapped_mk.kek =
                crypto_pwhash(kdf_hdr'.wrapped_mk.kek[1], kdf_hdr'.salt,
                              kdf_hdr'.kdf_iter, kdf_hdr'.kdf_mem)
       /\ (res'.op = "open" /\ kdf_hdr.exists /\ res'.oom = 0) =>
            /\ res'.rc = "OK" <=> res'.pass = kdf_hdr.wrapped_mk.kek[1]
            /\ res'.rc = "OK" =>
                  /\ kdf_handle'.is_open
                  /\ kdf_handle'.kdf_mem = kdf_hdr.kdf_mem
                  /\ kdf_handle'.kdf_iter = kdf_hdr.kdf_iter
                  /\ kdf_handle'.kdf_parallel = kdf_hdr.kdf_parallel]_vars

\* a vault whose passphrase was changed and whose header holds the LOW
\* parameters has just been opened while the process-wide profile is HIGH
C29_Witness ==
    /\ res.op = "open"
    /\ res.rc = "OK"
    /\ res.pass = "new passphrase"
    /\ kdf_handle.is_open
    /\ kdf_hdr.exists
    /\ kdf_hdr.salt = 2
    /\ kdf_hdr.kdf_mem = VAULT_KDF_MEM_LOW
    /\ g_kdf.mem = VAULT_KDF_MEM_HIGH

\* C30: an entry's storage shape never changes: across every call the entries
\* of the handle that carry the same file_id keep their chunk_count; and
\* every entry a successful streaming_finish appends has chunk_count > 0
C30_ShapeIsFixed ==
    [][/\ \A i \in 1..Len(g_vault.entries), j \in 1..Len(g_vault'.entries) :
            g_vault.entries[i].file_id = g_vault'.entries[j].file_id
                => g_vault.entries[i].chunk_count = g_vault'.entries[j].chunk_count
       /\ (res'.op = "streaming_finish" /\ res'.rc = "OK")
            => /\ Len(g_vault'.entries) = Len(g_vault.entries) + 1
               /\ g_vault'.entries[Len(g_vault'.entries)].chunk_count > 0]_vars

\* C31: while the vault is open, the blob of every entry of the handle, or
\* each of its chunks, lies inside the data region of the file: it starts at
\* or after the end of the index section and ends at or before the trailing
\* 32-byte hash
C31_BlobsInsideDataRegion ==
    (g_vault.is_open /\ disk.exists) =>
        \A i \in 1..Len(g_vault.entries) :
            LET e == g_vault.entries[i]
            IN  IF e.chunk_count > 0
                THEN \A c \in 1..Len(e.chunks) :
                        /\ e.chunks[c].offset >= DataStart(disk)
                        /\ e.chunks[c].offset + e.chunks[c].length
                              <= FileSize(disk) - VAULT_HASH_LEN
                ELSE /\ e.data_offset >= DataStart(disk)
                     /\ e.data_offset + e.data_length <= FileSize(disk) - VAULT_HASH_LEN

\* the entries the index section of the file names: those of its plaintext
\* when the section is a whole ciphertext under the master key, none otherwise
IndexOnDisk(d, mk) ==
    IF /\ d.exists
       /\ d.idx.ct.intact
       /\ d.idx.ct.key = mk
       /\ d.idx.ct.nonce = d.idx.nonce
       /\ d.idx.ctlen = IndexCtBytes(d.idx)
    THEN [i \in 1..Len(d.idx.ct.pt.recs) |-> d.idx.ct.pt.recs[i].e]
    ELSE <<>>

\* the blob of entry e starts where the data of file d ended
AtEndOfData(d, e) ==
    IF e.chunk_count > 0
    THEN e.chunks[1].offset = ContentSize(d)
    ELSE e.data_offset = ContentSize(d)

Placement(e) ==
    [data_offset |-> e.data_offset, data_length |-> e.data_length, chunks |-> e.chunks]

SessionOf(slots, pend, id) ==
    IF find_active_slot(slots, id) > 0 THEN slots[find_active_slot(slots, id)]
    ELSE pend[id].state

\* C34: writing a chunk index again right after it was written leaves the
\* session's completed_chunks and bytes_written at their values after the
\* first write
C34_RewriteIsIdempotent ==
    [][(/\ res.op = "streaming_write_chunk" /\ res.rc = "OK"
        /\ res'.op = "streaming_write_chunk" /\ res'.rc = "OK"
        /\ res'.import_id = res.import_id
        /\ res'.resume_from = res.resume_from)
       => LET before == SessionOf(g_active_imports, pending, res.import_id)
              after == SessionOf(g_active_imports', pending', res.import_id)
          IN  /\ after.completed_chunks = before.completed_chunks
              /\ after.bytes_written = before.bytes_written
      ]_vars

\* what read_chunk answers for an entry the handle holds when the entry is
\* not chunked and when the index is past its last chunk, with the container
\* as it is and with no container file at all
ChunkRefusals(not_chunked, past_end) ==
    g_vault.is_open =>
        \A fid \in 1..MaxFiles, c \in 0..MaxChunkIdx :
            LET i == FindEntry(g_vault.entries, fid)
                r == vault_read_chunk(g_vault, disk, fid, c)
                r0 == vault_read_chunk(g_vault, NoDisk, fid, c)
            IN  i # 0 =>
                  /\ g_vault.entries[i].chunk_count = 0 =>
                        r.rc = not_chunked /\ r0 = r
                  /\ (g_vault.entries[i].chunk_count > 0
                      /\ c >= g_vault.entries[i].chunk_count) =>
                        r.rc = past_end /\ r0 = r

\* C35: read_chunk returns invalid-param for an entry that is not chunked
\* and not-found for a chunk index at or past chunk_count, in both cases
\* without reading the container
C35_RefusalsBeforeRead == ChunkRefusals("INVALID_PARAM", "NOT_FOUND")

\* C35 as stated: invalid-param in both cases
C35_InvalidParamForBoth == ChunkRefusals("INVALID_PARAM", "INVALID_PARAM")

\* read_chunk has answered not-found on a handle that holds every file id it
\* can be asked for, one of them chunked: the index was past the last chunk
C35_Witness ==
    /\ res.op = "read_chunk"
    /\ res.rc = "NOT_FOUND"
    /\ g_vault.is_open
    /\ \A fid \in 1..MaxFiles : FindEntry(g_vault.entries, fid) # 0
    /\ \E i \in 1..Len(g_vault.entries) : g_vault.entries[i].chunk_count > 0
    /\ \E i \in 1..Len(g_vault.entries) : g_vault.entries[i].chunk_count = 0

\* C36: whenever the handle is not open, its master key, salt, vault_id and
\* wrapped master key are zero, its path is cleared and its entry list is
\* empty
C36_ClosedHandleIsBlank ==
    ~g_vault.is_open =>
        /\ g_vault.master_key = ClosedHandle.master_key
        /\ g_vault.salt = ClosedHandle.salt
        /\ g_vault.vault_id = ClosedHandle.vault_id
        /\ g_vault.wrapped_mk = ZeroWrappedMk
        /\ ~g_vault.path
        /\ g_vault.entries = <<>>

\* C37: after every successful streaming_write_chunk, whatever index it was
\* given, the session's completed_chunks is not below what it was and the
\* chunk files 0 .. completed_chunks - 1 of the import all exist in its
\* staging directory
C37_CompletedCountsStagedChunks ==
    [][(res'.op = "streaming_write_chunk" /\ res'.rc = "OK")
       => LET before == SessionOf(g_active_imports, pending, res'.import_id)
              after == SessionOf(g_active_imports', pending', res'.import_id)
          IN  /\ after.completed_chunks >= before.completed_chunks
              /\ \A i \in 0..(after.completed_chunks - 1) :
                    i \in DOMAIN pending'[res'.import_id].chunks
      ]_vars

\* C38: a streaming_finish that returns an error after it found the state of
\* the import, in a slot or in the staging directory, leaves no staging
\* directory and no active slot for that import and leaves the entry list of
\* the vault as it was
C38_FailedFinishAborts ==
    [][(/\ res'.op = "streaming_finish"
        /\ res'.rc # "OK"
        /\ g_vault.is_open
        /\ \/ find_active_slot(g_active_imports, res'.import_id) > 0
           \/ HasDir(pending, res'.import_id))
       => /\ ~pending'[res'.import_id].exists
          /\ find_active_slot(g_active_imports', res'.import_id) = 0
          /\ g_vault'.entries = g_vault.entries
      ]_vars

\* the file with the slot vault_open would choose failing its CRC
NewestSlotLost(d) ==
    IF journal_select_slot(d.hdr) = 0 THEN d
    ELSE [d EXCEPT !.hdr.slots[journal_select_slot(d.hdr)].crc_ok = FALSE]

\* C39: after change_password returns OK on a journal vault and replaces the
\* passphrase by another one, the old passphrase opens neither the file as
\* it is nor the file with its newest slot failing the CRC
C39_OldPassphraseIsDead ==
    [][(/\ res'.op = "change_password"
        /\ res'.rc = "OK"
        /\ g_vault.header_is_journal
        /\ curPass' # curPass)
       => /\ vault_open(ClosedHandle, disk', curPass).rc # "OK"
          /\ vault_open(ClosedHandle, NewestSlotLost(disk'), curPass).rc # "OK"
      ]_vars

====
